---- MODULE Spec2Model ----
(***************************************************************************)
(* The agent loop of Nexus (chatWithToolsAgentic): plan gate, tool         *)
(* dispatch, history trimming and the validation guard.                    *)
(*                                                                         *)
(* Two versions of the loop live in the repository:                        *)
(*   src/unnamed/part_000  trimming that keeps tool pairs + validation     *)
(*                         guard + corrective turn after approval          *)
(*   src/src/agent.ts      the module cli.ts imports: plain slice trimming *)
(* The variable impl says which of the two a behaviour runs; it never      *)
(* changes.  Spec runs part_000, SpecAgent runs agent.ts.                  *)
(*                                                                         *)
(* Arrays are 0-indexed in the source; At and SliceFrom keep the source's  *)
(* indices.                                                                *)
(***************************************************************************)
EXTENDS Integers, Sequences, FiniteSets, TLC

VARIABLES
    impl,            \* "part_000" or "agent_ts": which source file runs
    messages,        \* const messages: Message[]
    iterationCount,  \* let iterationCount
    actionCount,     \* let actionCount
    planApproved,    \* let planApproved
    pc,              \* position of the async function
    request,         \* the argument of the last apiClient.messages.create
    response,        \* response.content of the iteration in progress
    approval,        \* what getUserPlanApproval returned last
    gateInput,       \* history: what the user entered at the last prompt
    toolResults,     \* const toolResults of the iteration in progress
    outcome,         \* how the loop was left
    warned,          \* the 'Reached maximum iterations' warning was printed
    nextId,          \* next correlation id the API hands out
    modelCalls,      \* history: number of messages.create calls
    preApprovalIds,  \* history: tool_use ids received while not approved
    dispatchedIds,   \* history: tool_use ids passed to executeTool
    variations,      \* history: environment choices off the common path
    received,        \* history: response.content of the latest response
    approvedAt,      \* history: modelCalls when planApproved was set, 0 before
    heap,            \* tool_use id -> the name and the input object of the block
    pending,         \* ids of the executeTool calls that have not settled
    calls,           \* history: the functions.ts operations executeTool invoked
    disk,            \* the writes made to the file system, in order
    settles,         \* history: how each executeTool call settled
    sessionTokenUsage,  \* let sessionTokenUsage of the module (part_000)
    shown,           \* what the catch block of the loop printed
    subprocesses,    \* ids of the run_command calls whose subprocess is running
    journal,         \* history: what the tasks were given and what they did
    cachedSystemPrompt,              \* let cachedSystemPrompt of the module
    cachedCustomInstructions,        \* let cachedCustomInstructions
    customInstructionsPath,          \* let customInstructionsPath
    customInstructionsLastModified,  \* let customInstructionsLastModified
    files,           \* CLAUDE.md and AGENTS.md of process.cwd()
    systemPrompt     \* const systemPrompt of the latest model call

vars == <<impl, messages, iterationCount, actionCount, planApproved, pc,
          request, response, approval, gateInput, toolResults, outcome, warned, nextId,
          modelCalls, preApprovalIds, dispatchedIds, variations,
          received, approvedAt, heap, pending, calls, disk, settles,
          sessionTokenUsage, shown, subprocesses, journal,
          cachedSystemPrompt, cachedCustomInstructions, customInstructionsPath,
          customInstructionsLastModified, files, systemPrompt>>

\* the state of tool dispatch below the loop
toolVars == <<heap, pending, calls, disk, settles>>

\* the state outside the locals of chatWithToolsAgentic
sessionVars == <<sessionTokenUsage, shown, subprocesses>>

----------------------------------------------------------------------------
(* Program constants *)

MAX_ITERATIONS == 15
MAX_CONTEXT_MESSAGES == 10
MAX_TOOL_RESULT_LENGTH == 2000
ENABLE_TOKEN_OPTIMIZATION == TRUE

(* Bounds of the model *)

\* tool_use blocks in one response
MaxToolUses == 2
\* longest turn list given to trimConversationHistory on its own
MaxTrimLen == 12
\* highest totalTokens of the session at which a further task is followed
MaxCarriedTokens == 4
\* most lines of a listing, of a search result and of a command's output
MaxEntries == 60
\* inputs given to a task that leaves the common path, where two tasks
\* in a row are followed
MaxRepeated == 5
\* times an instruction file is written while the process runs
MaxWrites == 1
\* tool_use blocks over one run of the dispatch in full
MaxDispatched == 2
\* calls of executeTool in a row on one invocation
MaxExecCalls == 2
\* per task, how far the model, the user and the tools together may leave
\* the common path (a revision or a replacement plan, a failing tool, and
\* what ResponseVariation counts)
MaxVariations == 1

----------------------------------------------------------------------------
(* Turns and content blocks *)

NULL == "null"

At(seq, i) == seq[i + 1]
SliceFrom(seq, from) == SubSeq(seq, from + 1, Len(seq))
Last(seq) == seq[Len(seq)]
Range(seq) == {seq[k] : k \in 1..Len(seq)}

\* { role: 'user' | 'assistant', content: string | any[] }
StringTurn(role, tmpl, arg) ==
    [role |-> role, kind |-> "string", tmpl |-> tmpl, arg |-> arg, blocks |-> <<>>]
ArrayTurn(role, blocks) ==
    [role |-> role, kind |-> "array", tmpl |-> "", arg |-> "", blocks |-> blocks]

TextBlock(text) == [type |-> "text", id |-> 0, text |-> text, is_error |-> FALSE]
ToolUseBlock(id) == [type |-> "tool_use", id |-> id, text |-> "", is_error |-> FALSE]
ToolResultBlock(id, failed) ==
    [type |-> "tool_result", id |-> id, text |-> "", is_error |-> failed]

BlocksOfType(blocks, type) == SelectSeq(blocks, LAMBDA b : b.type = type)
HasBlock(turn, type) ==
    turn.kind = "array" /\ \E k \in 1..Len(turn.blocks) : turn.blocks[k].type = type

\* response.content of a response with the given text and n tool_use blocks
ResponseContent(text, n, firstId) ==
    (IF text = "none" THEN <<>> ELSE <<TextBlock(text)>>)
    \o [k \in 1..n |-> ToolUseBlock(firstId + k - 1)]

NoResponse == <<>>
NoApproval == [approved |-> FALSE, feedback |-> "", newPlan |-> "", asked |-> FALSE]
NoRequest == [messages |-> <<>>, tools |-> "none", sent |-> FALSE]

----------------------------------------------------------------------------
(* extractPlan: the text of a response is one of
     "marker"  holds a PLAN marker (first or second pattern matches)
     "list"    holds a numbered list and no marker (third pattern matches)
     "prose"   neither
   The result is the plan text, never empty when a pattern matched
   (match[1] || match[0]), or null. *)
TextKinds == {"marker", "list", "prose"}

extractPlan(text) ==
    IF text = "marker" THEN "plan_after_marker"
    ELSE IF text = "list" THEN "numbered_list"
    ELSE NULL

(* getUserPlanApproval: action is the choice of the select prompt ("none":
   the prompt was dismissed), text the answer to the text prompt that
   follows 'feedback' and 'replace' ("": dismissed, nothing entered). *)
GateActions == {"approve", "feedback", "replace", "cancel", "none"}
GateTexts == {"", "t1"}

getUserPlanApproval(action, text) ==
    IF action = "none" \/ action = "cancel"
        THEN [approved |-> FALSE, feedback |-> "", newPlan |-> "", asked |-> TRUE]
    ELSE IF action = "approve"
        THEN [approved |-> TRUE, feedback |-> "", newPlan |-> "", asked |-> TRUE]
    ELSE IF action = "feedback"
        THEN IF text = ""
             THEN [approved |-> FALSE, feedback |-> "", newPlan |-> "", asked |-> TRUE]
             ELSE [approved |-> FALSE, feedback |-> text, newPlan |-> "", asked |-> TRUE]
    ELSE IF action = "replace"
        THEN IF text = ""
             THEN [approved |-> FALSE, feedback |-> "", newPlan |-> "", asked |-> TRUE]
             ELSE [approved |-> TRUE, feedback |-> "", newPlan |-> text, asked |-> TRUE]
    ELSE [approved |-> FALSE, feedback |-> "", newPlan |-> "", asked |-> TRUE]

----------------------------------------------------------------------------
(* validateToolPairs: the ids of all tool_use blocks and of all tool_result
   blocks are collected over the whole list, in no order; the list is valid
   when every result id is among the use ids. *)
BlockIds(msgs, type) ==
    UNION {{b.id : b \in {x \in Range(m.blocks) : x.type = type}} : m \in Range(msgs)}

ToolUseIds(msgs) == BlockIds(msgs, "tool_use")
ToolResultIds(msgs) == BlockIds(msgs, "tool_result")

validateToolPairs(msgs) ==
    \A list \in {msgs} : ToolResultIds(list) \subseteq ToolUseIds(list)

----------------------------------------------------------------------------
(* trimConversationHistory of src/unnamed/part_000 *)

summaryMessage == StringTurn("user", "truncated_pairs_preserved", "")

\* the loop body without its first half: the cut is never moved back over
\* the assistant turn before a results turn
ScanStepForwardOnly(msgs, i) ==
    IF /\ At(msgs, i).role = "assistant"
       /\ At(msgs, i).kind = "array"
       /\ HasBlock(At(msgs, i), "tool_use")
       /\ i < Len(msgs) - 1
       /\ At(msgs, i + 1).role = "user"
       /\ At(msgs, i + 1).kind = "array"
    THEN {i} ELSE {}

\* The body of the for loop at index i lowers keepFromIndex by Math.min to
\* i - 1 (a results turn right after an assistant turn) and to i (an
\* assistant turn with tool_use followed by a user turn with blocks); the
\* values it takes the minimum with:
ScanStep(msgs, i) ==
    LET message == At(msgs, i)
    IN  (IF /\ message.role = "user"
            /\ message.kind = "array"
            /\ HasBlock(message, "tool_result")
            /\ i > 0
            /\ At(msgs, i - 1).role = "assistant"
         THEN {i - 1} ELSE {})
        \cup
        (IF /\ message.role = "assistant"
            /\ message.kind = "array"
            /\ HasBlock(message, "tool_use")
            /\ i < Len(msgs) - 1
            /\ At(msgs, i + 1).role = "user"
            /\ At(msgs, i + 1).kind = "array"
         THEN {i} ELSE {})

Minimum(S) == CHOOSE x \in S : \A y \in S : x <= y

\* for (let i = keepFromIndex; i < messages.length; i++): i starts at the
\* first keepFromIndex and runs to the end whatever the body assigns, so
\* the loop leaves the minimum of the start and of all the bodies' values
Scan(msgs, start) ==
    Minimum({start} \cup UNION {ScanStep(msgs, i) : i \in start..(Len(msgs) - 1)})

\* Math.max(1, messages.length - MAX_CONTEXT_MESSAGES + 1), then the loop
KeepFromIndex(msgs) ==
    LET start == IF Len(msgs) - MAX_CONTEXT_MESSAGES + 1 > 1
                 THEN Len(msgs) - MAX_CONTEXT_MESSAGES + 1 ELSE 1
    IN  Scan(msgs, start)

\* the marker and the recent turns without the first turn
TrimFromWithoutFirst(msgs, keepFromIndex) ==
    IF keepFromIndex > 1
    THEN <<summaryMessage>> \o SliceFrom(msgs, keepFromIndex)
    ELSE msgs

TrimFrom(msgs, keepFromIndex) ==
    IF keepFromIndex > 1
    THEN <<At(msgs, 0), summaryMessage>> \o SliceFrom(msgs, keepFromIndex)
    ELSE msgs

trimConversationHistory(msgs) ==
    IF ~ENABLE_TOKEN_OPTIMIZATION \/ Len(msgs) <= MAX_CONTEXT_MESSAGES THEN msgs
    ELSE CHOOSE trimmed \in {TrimFrom(msgs, k) : k \in {KeepFromIndex(msgs)}} : TRUE

(* trimConversationHistory of src/src/agent.ts *)

summaryMessageAgent == StringTurn("user", "truncated_context_preserved", "")

trimConversationHistoryAgent(msgs) ==
    IF ~ENABLE_TOKEN_OPTIMIZATION \/ Len(msgs) <= MAX_CONTEXT_MESSAGES THEN msgs
    ELSE <<At(msgs, 0), summaryMessageAgent>>
         \o SliceFrom(msgs, Len(msgs) - (MAX_CONTEXT_MESSAGES - 1))

----------------------------------------------------------------------------
(* The turn list of one model call.
   part_000: trim, then the validation guard; a failed guard replaces the
   content of optimizedMessages by [messages[0]].
   agent.ts: trim only. *)
Trimmed(which, msgs) ==
    IF which = "part_000" THEN trimConversationHistory(msgs)
    ELSE trimConversationHistoryAgent(msgs)

\* the plain slice of agent.ts in place of the pair-keeping trim and the guard
optimizedMessagesSliced(which, msgs) == trimConversationHistoryAgent(msgs)

\* a guard that reports and sends the list as it is
GuardedReportsOnly(which, msgs, trimmed) == trimmed

Guarded(which, msgs, trimmed) ==
    IF which = "part_000" /\ ~validateToolPairs(trimmed)
    THEN <<At(msgs, 0)>>
    ELSE trimmed

optimizedMessages(which, msgs) ==
    CHOOSE list \in {Guarded(which, msgs, t) : t \in {Trimmed(which, msgs)}} : TRUE

\* trimConversationHistory returns its argument itself when it drops
\* nothing, and the guard's splice then empties the conversation too
messagesAfterGuard(which, msgs) ==
    IF /\ which = "part_000"
       /\ \E t \in {Trimmed(which, msgs)} : ~validateToolPairs(t) /\ t = msgs
    THEN <<At(msgs, 0)>>
    ELSE msgs

\* the catalog on every call
toolListAlways(approved) == "catalog"

\* tools: planApproved ? tools : []
toolList(approved) == IF approved THEN "catalog" ELSE "empty"

----------------------------------------------------------------------------
(* The turns the loop appends *)

ApprovedTurn(which, newPlan) ==
    IF newPlan # ""
    THEN StringTurn("user",
            IF which = "part_000" THEN "follow_this_plan__Plan_is_APPROVED"
            ELSE "follow_this_plan__Now_execute", newPlan)
    ELSE StringTurn("user",
            IF which = "part_000" THEN "Plan_is_APPROVED_start_executing"
            ELSE "Plan_approved_please_execute", "")

ReviseTurn(feedback) == StringTurn("user", "revise_based_on_feedback", feedback)
NumberedPlanTurn == StringTurn("user", "provide_clear_numbered_plan", "")
PlanFirstTurn == StringTurn("user", "plan_first_before_tools", "")
DetailedPlanTurn == StringTurn("user", "provide_detailed_plan", "")
StartExecutingTurn == StringTurn("user", "start_executing_with_tools", "")

\* messages[messages.length - 1].content.includes('Plan is APPROVED'):
\* substring search on a string, element search on an array of blocks
IncludesPlanIsApproved(turn) ==
    /\ turn.kind = "string"
    /\ turn.tmpl \in {"follow_this_plan__Plan_is_APPROVED",
                      "Plan_is_APPROVED_start_executing"}

----------------------------------------------------------------------------
(* Token usage tracking of src/unnamed/part_000 (src/src/agent.ts keeps no
   session counters).  The lengths of the texts are not in the model:
   estimateTokens, Math.ceil(text.length / 4), is taken at its least value
   for a text that is not empty. *)
estimateTokens == 1

updateTokenUsage(usage) ==
    [inputTokens |-> usage.inputTokens + estimateTokens,
     outputTokens |-> usage.outputTokens + estimateTokens,
     totalTokens |-> usage.totalTokens + estimateTokens + estimateTokens]

\* sessionTokenUsage when the module is loaded, and after k responses
RECURSIVE TokenUsageAfter(_)
TokenUsageAfter(k) ==
    IF k = 0 THEN [inputTokens |-> 0, outputTokens |-> 0, totalTokens |-> 0]
    ELSE updateTokenUsage(TokenUsageAfter(k - 1))

\* updateTokenUsage(inputText, outputText) after a response; part_000 only
usageAfterResponse(which, usage) ==
    IF which = "part_000" THEN updateTokenUsage(usage) ELSE usage

\* an error as the catch block reads it: status (0: undefined), code and
\* whether the message includes 'tool_use_id'
ModelError(status, code, mentionsToolUseId) ==
    [status |-> status, code |-> code, mentionsToolUseId |-> mentionsToolUseId]

NoError == ModelError(0, "", FALSE)
NothingShown == [error |-> NoError, message |-> "none"]

----------------------------------------------------------------------------
(* The journal of a process.  While it is kept (on), it holds for the task
   that is running what the task was given, in order (script: the model
   responses and rejections, the answers at the Plan Gate, how the tool
   calls settled), what it did, in order (trace: the model calls, the Plan
   Gate prompts, the tool dispatches, and how it ended), the value of
   sessionTokenUsage it started from, and the same of the task that ran
   before it (earlier: no element, or one). *)
Entry(kind, n, words) == [kind |-> kind, n |-> n, words |-> words]

NoJournal ==
    [on |-> FALSE, script |-> <<>>, trace |-> <<>>,
     start |-> TokenUsageAfter(0), earlier |-> <<>>]

Noted(given, did) ==
    IF journal.on
    THEN [journal EXCEPT !.script = @ \o given, !.trace = @ \o did]
    ELSE journal

\* the task ended: by what, and whether the warning was printed
Ended(how, warning) ==
    <<Entry("end", 0, <<how, IF warning THEN "warning" ELSE "">>)>>

----------------------------------------------------------------------------
(* The system prompt and the custom instructions.  A file of process.cwd()
   is there or not, and has a modification time and a content; the contents
   here are shorter than the 2000 characters buildSystemPrompt keeps.
   null and '' are one value here, "", as every test on them in the code is
   a test of truthiness; the null of cachedSystemPrompt is <<>>. *)
promptVars == <<cachedSystemPrompt, cachedCustomInstructions, customInstructionsPath,
                customInstructionsLastModified, files, systemPrompt>>

possibleFiles == <<"CLAUDE.md", "AGENTS.md">>

NoFile == [exists |-> FALSE, mtimeMs |-> 0, content |-> ""]
File(mtimeMs, content) == [exists |-> TRUE, mtimeMs |-> mtimeMs, content |-> content]

\* the directory where name is the one instruction file
OnlyFile(name) ==
    [f \in {possibleFiles[k] : k \in 1..Len(possibleFiles)} |->
        IF f = name THEN File(1, "v1") ELSE NoFile]

\* the for loop over possibleFiles: the first that exists, "" when none does
currentPath ==
    IF files[possibleFiles[1]].exists THEN possibleFiles[1]
    ELSE IF files[possibleFiles[2]].exists THEN possibleFiles[2]
    ELSE ""

\* the text the prompt is built of, with the custom instructions given
PromptWith(customInstructions) == <<"You are Nexus", customInstructions>>

(* loadCustomInstructions(): the cache variables when it has returned; it
   returns cachedCustomInstructions *)
loadCustomInstructions ==
    LET currentModified == IF currentPath = "" THEN 0 ELSE files[currentPath].mtimeMs
        needsReload ==
            \/ cachedCustomInstructions = ""
            \/ /\ currentPath # ""
               /\ \/ customInstructionsPath # currentPath
                  \/ customInstructionsLastModified < currentModified
    IN  IF needsReload /\ currentPath # ""
        THEN [cachedCustomInstructions |-> files[currentPath].content,
              customInstructionsPath |-> currentPath,
              customInstructionsLastModified |-> currentModified]
        ELSE IF currentPath = ""
        THEN [cachedCustomInstructions |-> "",
              customInstructionsPath |-> "",
              customInstructionsLastModified |-> customInstructionsLastModified]
        ELSE [cachedCustomInstructions |-> cachedCustomInstructions,
              customInstructionsPath |-> customInstructionsPath,
              customInstructionsLastModified |-> customInstructionsLastModified]

\* loadCustomInstructionsUncached(): the content of the first file there is
loadCustomInstructionsUncached ==
    IF currentPath = "" THEN "" ELSE files[currentPath].content

(* buildSystemPrompt(): the prompt it returns and the cache variables when
   it has returned.  A cached prompt is returned as it is; otherwise the
   prompt is built with what loadCustomInstructions returns, and cached. *)
buildSystemPrompt ==
    IF cachedSystemPrompt # <<>> /\ ENABLE_TOKEN_OPTIMIZATION
    THEN [systemPrompt |-> cachedSystemPrompt,
          cachedSystemPrompt |-> cachedSystemPrompt,
          cachedCustomInstructions |-> cachedCustomInstructions,
          customInstructionsPath |-> customInstructionsPath,
          customInstructionsLastModified |-> customInstructionsLastModified]
    ELSE IF ENABLE_TOKEN_OPTIMIZATION
    THEN [systemPrompt |-> PromptWith(loadCustomInstructions.cachedCustomInstructions),
          cachedSystemPrompt |-> PromptWith(loadCustomInstructions.cachedCustomInstructions),
          cachedCustomInstructions |-> loadCustomInstructions.cachedCustomInstructions,
          customInstructionsPath |-> loadCustomInstructions.customInstructionsPath,
          customInstructionsLastModified |-> loadCustomInstructions.customInstructionsLastModified]
    ELSE [systemPrompt |-> PromptWith(loadCustomInstructionsUncached),
          cachedSystemPrompt |-> cachedSystemPrompt,
          cachedCustomInstructions |-> cachedCustomInstructions,
          customInstructionsPath |-> customInstructionsPath,
          customInstructionsLastModified |-> customInstructionsLastModified]

\* the module has been loaded: nothing is cached
InitCaches ==
    /\ cachedSystemPrompt = <<>>
    /\ cachedCustomInstructions = ""
    /\ customInstructionsPath = ""
    /\ customInstructionsLastModified = 0
    /\ systemPrompt = <<>>

InitPrompt == InitCaches /\ files = OnlyFile("CLAUDE.md")

\* the first model call has been made
PromptBuilt ==
    /\ cachedSystemPrompt = PromptWith("v1")
    /\ cachedCustomInstructions = "v1"
    /\ customInstructionsPath = "CLAUDE.md"
    /\ customInstructionsLastModified = 1
    /\ systemPrompt = PromptWith("v1")
    /\ files = OnlyFile("CLAUDE.md")

----------------------------------------------------------------------------
(* Initial state: chatWithToolsAgentic(userMessage) has set up its locals *)

InitLocals ==
    /\ messages = <<StringTurn("user", "task", "")>>
    /\ iterationCount = 0
    /\ actionCount = 0
    /\ planApproved = FALSE
    /\ pc = "loop"
    /\ request = NoRequest
    /\ response = NoResponse
    /\ approval = NoApproval
    /\ gateInput = <<"", "">>
    /\ toolResults = <<>>
    /\ outcome = "running"
    /\ warned = FALSE
    /\ nextId = 1
    /\ modelCalls = 0
    /\ preApprovalIds = {}
    /\ dispatchedIds = {}
    /\ variations = 0
    /\ received = NoResponse
    /\ approvedAt = 0
    /\ heap = <<>>
    /\ pending = {}
    /\ calls = <<>>
    /\ disk = <<>>
    /\ settles = <<>>
    /\ sessionTokenUsage = TokenUsageAfter(0)
    /\ shown = NothingShown
    /\ subprocesses = {}

Init == impl = "part_000" /\ InitLocals /\ journal = NoJournal /\ InitPrompt
InitAgent == impl = "agent_ts" /\ InitLocals /\ journal = NoJournal /\ InitPrompt

\* a catch that goes round the loop again in place of break
LeaveLoopRetries(how) ==
    /\ pc' = IF how = "error" THEN "loop" ELSE "done"
    /\ outcome' = how
    /\ warned' = (iterationCount >= MAX_ITERATIONS)

\* the loop left without the check that follows it
LeaveLoopSilent(how) ==
    /\ pc' = "done"
    /\ outcome' = how
    /\ warned' = FALSE

\* leaving the loop by break, or by its condition: the warning after it
LeaveLoop(how) ==
    /\ pc' = "done"
    /\ outcome' = how
    /\ warned' = (iterationCount >= MAX_ITERATIONS)

\* off by one: one pass too many
LoopConditionInclusive == iterationCount <= MAX_ITERATIONS

\* a loop that also stops when the session has used up a token budget
LoopConditionBudget ==
    /\ iterationCount < MAX_ITERATIONS
    /\ sessionTokenUsage.totalTokens < 2 * MAX_ITERATIONS

\* while (iterationCount < MAX_ITERATIONS)
LoopCondition == iterationCount < MAX_ITERATIONS

(* One pass of the loop head: iterationCount++, the turn list is built and
   the model is called. *)
CallModel ==
    /\ pc = "loop"
    /\ LoopCondition
    /\ iterationCount' = iterationCount + 1
    /\ request' = [messages |-> optimizedMessages(impl, messages),
                   tools |-> toolList(planApproved), sent |-> TRUE]
    /\ messages' = messagesAfterGuard(impl, messages)
    /\ modelCalls' = modelCalls + 1
    /\ pc' = "await"
    /\ journal' = Noted(<<>>, <<Entry("call", Len(request'.messages),
                                      <<request'.tools, "">>)>>)
    /\ systemPrompt' = buildSystemPrompt.systemPrompt
    /\ cachedSystemPrompt' = buildSystemPrompt.cachedSystemPrompt
    /\ cachedCustomInstructions' = buildSystemPrompt.cachedCustomInstructions
    /\ customInstructionsPath' = buildSystemPrompt.customInstructionsPath
    /\ customInstructionsLastModified' = buildSystemPrompt.customInstructionsLastModified
    /\ UNCHANGED <<files, sessionVars, impl, actionCount, planApproved, response, approval,
                   gateInput, toolResults, outcome, warned, nextId, preApprovalIds,
                   dispatchedIds, variations, received, approvedAt, toolVars>>

(* The loop condition fails *)
CeilingReached ==
    /\ pc = "loop"
    /\ ~LoopCondition
    /\ LeaveLoop("max_iterations")
    /\ journal' = Noted(<<>>, Ended(outcome', warned'))
    /\ UNCHANGED <<promptVars, sessionVars, impl, messages, iterationCount, actionCount, planApproved,
                   request, response, approval, gateInput, toolResults, nextId,
                   modelCalls,
                   preApprovalIds, dispatchedIds, variations, received,
                   approvedAt, toolVars>>

(* messages.create rejects (401, 429, 5xx, network, ...): catch, break *)
ModelFails ==
    /\ pc = "await"
    /\ LeaveLoop("error")
    /\ journal' = Noted(<<Entry("rejected", 0, <<"", "">>)>>, Ended(outcome', warned'))
    /\ UNCHANGED <<promptVars, sessionVars, impl, messages, iterationCount, actionCount, planApproved,
                   request, response, approval, gateInput, toolResults, nextId,
                   modelCalls,
                   preApprovalIds, dispatchedIds, variations, received,
                   approvedAt, toolVars>>

(* The catch block of the loop in full: which headline it prints for the
   error messages.create rejected with.  The errors followed: the API
   answered with a status (invalid key, rate limit, bad request with or
   without a complaint about tool_use_id, internal error, bad gateway,
   unavailable, overloaded), or no connection was made (error.code set). *)
ModelErrors ==
    {ModelError(401, "", FALSE),
     ModelError(429, "", FALSE),
     ModelError(400, "", FALSE),
     ModelError(400, "", TRUE),
     ModelError(500, "", FALSE),
     ModelError(502, "", FALSE),
     ModelError(503, "", FALSE),
     ModelError(529, "", FALSE),
     ModelError(0, "ECONNREFUSED", FALSE),
     ModelError(0, "ENOTFOUND", FALSE),
     ModelError(0, "ETIMEDOUT", FALSE)}

\* the if chain of the catch block: the first line it prints
catchHeadline(which, error) ==
    IF error.status = 401 THEN "Authentication Error"
    ELSE IF error.status = 429 THEN "Rate Limit Exceeded"
    ELSE IF error.status = 500 THEN "Server Error"
    ELSE IF error.code \in {"ECONNREFUSED", "ENOTFOUND"} THEN "Network Error"
    ELSE IF which = "part_000" /\ error.mentionsToolUseId
         THEN "Tool Synchronization Error"
    ELSE "Error:"

ModelRejects ==
    /\ pc = "await"
    /\ \E error \in ModelErrors :
        shown' = [error |-> error, message |-> catchHeadline(impl, error)]
    /\ LeaveLoop("error")
    /\ journal' = Noted(<<Entry("rejected", shown'.error.status,
                               <<shown'.error.code, "">>)>>,
                         Ended(outcome', warned'))
    /\ UNCHANGED <<promptVars, sessionTokenUsage, subprocesses, impl, messages,
                   iterationCount, actionCount, planApproved,
                   request, response, approval, gateInput, toolResults, nextId,
                   modelCalls,
                   preApprovalIds, dispatchedIds, variations, received,
                   approvedAt, toolVars>>

----------------------------------------------------------------------------
\* the loop without the branch that turns away tool_use blocks received
\* before approval
RouteUngated(which, approved, content, msgs) ==
    LET textBlocks == SelectSeq(content, LAMBDA b : b.type = "text")
        toolUseBlocks == SelectSeq(content, LAMBDA b : b.type = "tool_use")
    IN  IF Len(textBlocks) > 0 /\ ~approved /\ Len(toolUseBlocks) = 0
        THEN IF extractPlan(textBlocks[1].text) # NULL THEN "gate"
             ELSE "numbered_plan"
        ELSE IF Len(toolUseBlocks) = 0 /\ approved THEN "completed"
        ELSE IF Len(toolUseBlocks) = 0 /\ ~approved THEN "detailed_plan"
        ELSE "dispatch"

\* 'no tool_use' ends the task whether or not a plan was approved
RouteCompletesUnapproved(which, approved, content, msgs) ==
    LET textBlocks == SelectSeq(content, LAMBDA b : b.type = "text")
        toolUseBlocks == SelectSeq(content, LAMBDA b : b.type = "tool_use")
    IN  IF Len(textBlocks) > 0 /\ ~approved
        THEN IF extractPlan(textBlocks[1].text) # NULL THEN "gate"
             ELSE "numbered_plan"
        ELSE IF ~approved /\ Len(toolUseBlocks) > 0 THEN "plan_first"
        ELSE IF Len(toolUseBlocks) = 0 THEN "completed"
        ELSE "dispatch"

\* the loop of src/src/agent.ts: no corrective turn after the approval
RouteNoCorrective(which, approved, content, msgs) ==
    LET textBlocks == BlocksOfType(content, "text")
        toolUseBlocks == BlocksOfType(content, "tool_use")
    IN  IF Len(textBlocks) > 0 /\ ~approved
        THEN IF extractPlan(textBlocks[1].text) # NULL THEN "gate"
             ELSE "numbered_plan"
        ELSE IF ~approved /\ Len(toolUseBlocks) > 0 THEN "plan_first"
        ELSE IF Len(toolUseBlocks) = 0 /\ approved THEN "completed"
        ELSE IF Len(toolUseBlocks) = 0 /\ ~approved THEN "detailed_plan"
        ELSE "dispatch"

(* What the loop does with a response, from the text blocks and the
   tool_use blocks it holds (the if-chain after spinner.stop()):
     "gate"            a plan was found: getUserPlanApproval
     "numbered_plan"   text without a plan, not approved
     "plan_first"      no text, tool_use blocks, not approved
     "detailed_plan"   no text, no tool_use, not approved
     "start_executing" approved, no tool_use, right after the approval turn
     "completed"       approved, no tool_use
     "dispatch"        approved, tool_use blocks *)
Route(which, approved, content, msgs) ==
    LET textBlocks == BlocksOfType(content, "text")
        toolUseBlocks == BlocksOfType(content, "tool_use")
    IN  IF Len(textBlocks) > 0 /\ ~approved
        THEN IF extractPlan(textBlocks[1].text) # NULL THEN "gate"
             ELSE "numbered_plan"
        ELSE IF ~approved /\ Len(toolUseBlocks) > 0 THEN "plan_first"
        ELSE IF Len(toolUseBlocks) = 0 /\ approved
             THEN IF /\ which = "part_000"
                     /\ Len(msgs) > 0
                     /\ IncludesPlanIsApproved(Last(msgs))
                  THEN "start_executing"
                  ELSE "completed"
        ELSE IF Len(toolUseBlocks) = 0 /\ ~approved THEN "detailed_plan"
        ELSE "dispatch"

\* How far a response is off the common path.  On the common path a
\* response before approval is text only, and one after approval is a
\* single tool_use block without text, or nothing.  Every tool_use block
\* before approval, every block beyond the first after it, a missing text
\* before approval and a text after it count one each.
ResponseVariation(approved, text, n) ==
    IF approved
    THEN (IF text = "none" THEN 0 ELSE 1) + (IF n > 1 THEN n - 1 ELSE 0)
    ELSE IF n > 0 THEN n ELSE IF text = "none" THEN 1 ELSE 0

(* messages.create resolves with a response of the given text and n
   tool_use blocks; the loop runs on to its next await, continue or break *)
ModelResponds ==
    /\ pc = "await"
    /\ \E text \in TextKinds \cup {"none"}, n \in 0..MaxToolUses :
        LET content == ResponseContent(text, n, nextId)
            route == Route(impl, planApproved, content, messages)
        IN  /\ variations + ResponseVariation(planApproved, text, n) <= MaxVariations
            /\ variations' = variations + ResponseVariation(planApproved, text, n)
            /\ nextId' = nextId + n
            /\ received' = content
            /\ preApprovalIds' =
                 IF planApproved THEN preApprovalIds
                 ELSE preApprovalIds \cup {nextId + k - 1 : k \in 1..n}
            /\ IF route = "gate"
               THEN /\ pc' = "gate"
                    /\ response' = content
                    /\ UNCHANGED <<messages, outcome, warned>>
               ELSE IF route = "completed"
               THEN /\ LeaveLoop("completed")
                    /\ response' = NoResponse
                    /\ UNCHANGED messages
               ELSE IF route = "dispatch"
               THEN /\ messages' = Append(messages, ArrayTurn("assistant", content))
                    /\ response' = content
                    /\ pc' = "tools"
                    /\ UNCHANGED <<outcome, warned>>
               ELSE /\ messages' = Append(messages,
                        IF route = "numbered_plan" THEN NumberedPlanTurn
                        ELSE IF route = "plan_first" THEN PlanFirstTurn
                        ELSE IF route = "detailed_plan" THEN DetailedPlanTurn
                        ELSE StartExecutingTurn)
                    /\ response' = NoResponse
                    /\ pc' = "loop"
                    /\ UNCHANGED <<outcome, warned>>
            /\ journal' = Noted(<<Entry("response", n, <<text, "">>)>>,
                                 IF route = "gate"
                                 THEN <<Entry("prompt", 0, <<"", "">>)>>
                                 ELSE IF route = "completed"
                                 THEN Ended(outcome', warned')
                                 ELSE <<>>)
    /\ sessionTokenUsage' = usageAfterResponse(impl, sessionTokenUsage)
    /\ UNCHANGED <<promptVars, shown, subprocesses, impl, iterationCount, actionCount, planApproved, request,
                   approval, gateInput, toolResults, modelCalls, dispatchedIds,
                   approvedAt, toolVars>>

\* an answer without approval and without feedback goes on as a revision
GateBranchNoCancel(answer) ==
    IF answer.approved THEN "approved" ELSE "revise"

\* the approved flag is not looked at when feedback came
GateBranchFeedbackApproves(answer) ==
    IF answer.approved \/ answer.feedback # "" THEN "approved"
    ELSE "cancelled"

\* a revision request is dropped: the loop ends as on cancel
GateBranchNoRevision(answer) ==
    IF answer.approved THEN "approved" ELSE "cancelled"

\* what the loop does with the answer of getUserPlanApproval
GateBranch(answer) ==
    IF answer.approved THEN "approved"
    ELSE IF answer.feedback # "" THEN "revise"
    ELSE "cancelled"

(* The Plan Gate prompt returns *)
PlanGate ==
    /\ pc = "gate"
    /\ \E action \in GateActions, text \in GateTexts :
        LET answer == getUserPlanApproval(action, text)
            cost == IF answer.feedback # "" \/ answer.newPlan # "" THEN 1 ELSE 0
        IN  /\ action \in {"feedback", "replace"} \/ text = ""  \* no text prompt
            /\ variations + cost <= MaxVariations
            /\ variations' = variations + cost
            /\ approval' = answer
            /\ gateInput' = <<action, text>>
            /\ response' = NoResponse
            /\ IF GateBranch(answer) = "approved"
               THEN /\ planApproved' = TRUE
                    /\ approvedAt' = modelCalls
                    /\ messages' = Append(messages, ApprovedTurn(impl, answer.newPlan))
                    /\ pc' = "loop"
                    /\ UNCHANGED <<outcome, warned>>
               ELSE IF GateBranch(answer) = "revise"
               THEN /\ messages' = Append(messages, ReviseTurn(answer.feedback))
                    /\ pc' = "loop"
                    /\ UNCHANGED <<planApproved, approvedAt, outcome, warned>>
               ELSE \* return: the warning after the loop is not reached
                    /\ pc' = "done"
                    /\ outcome' = "cancelled"
                    /\ UNCHANGED <<planApproved, approvedAt, messages, warned>>
            /\ journal' = Noted(<<Entry("answer", 0, <<action, text>>)>>,
                                 IF GateBranch(answer) \in {"approved", "revise"}
                                 THEN <<>>
                                 ELSE Ended(outcome', warned'))
    /\ UNCHANGED <<promptVars, sessionVars, impl, iterationCount, actionCount, request, toolResults,
                   nextId, modelCalls, preApprovalIds, dispatchedIds, received,
                   toolVars>>

(* executeTool settles for the next tool_use block of the response: its
   tool_result is pushed on toolResults; after the last block the results
   turn is appended to the conversation *)
ExecuteTool ==
    /\ pc = "tools"
    /\ \E failed \in BOOLEAN :
        LET toolUseBlocks == BlocksOfType(response, "tool_use")
            toolBlock == toolUseBlocks[Len(toolResults) + 1]
            results == Append(toolResults, ToolResultBlock(toolBlock.id, failed))
            cost == IF failed THEN 1 ELSE 0
        IN  /\ variations + cost <= MaxVariations
            /\ variations' = variations + cost
            /\ actionCount' = actionCount + 1
            /\ dispatchedIds' = dispatchedIds \cup {toolBlock.id}
            /\ IF Len(results) = Len(toolUseBlocks)
               THEN /\ messages' = Append(messages, ArrayTurn("user", results))
                    /\ toolResults' = <<>>
                    /\ response' = NoResponse
                    /\ pc' = "loop"
               ELSE /\ toolResults' = results
                    /\ UNCHANGED <<messages, response, pc>>
            /\ journal' = Noted(<<Entry("settled", toolBlock.id,
                                       <<IF failed THEN "threw" ELSE "returned", "">>)>>,
                                 <<Entry("dispatch", toolBlock.id, <<"", "">>)>>)
    /\ UNCHANGED <<promptVars, sessionVars, impl, iterationCount, planApproved, request, approval,
                   gateInput, outcome, warned, nextId, modelCalls, preApprovalIds,
                   received, approvedAt, toolVars>>

Next ==
    \/ CallModel
    \/ CeilingReached
    \/ ModelFails
    \/ ModelResponds
    \/ PlanGate
    \/ ExecuteTool

Spec == Init /\ [][Next]_vars
SpecAgent == InitAgent /\ [][Next]_vars

(* Each await of the loop settles: the model call, the prompt and the tool
   dispatch return, and the synchronous steps between them run. *)
FairSpec == Init /\ [][Next]_vars /\ WF_vars(Next)

(* The loop of either file with the catch block in full *)
NextReject ==
    \/ CallModel
    \/ CeilingReached
    \/ ModelRejects
    \/ ModelResponds
    \/ PlanGate
    \/ ExecuteTool

InitReject ==
    impl \in {"part_000", "agent_ts"} /\ InitLocals /\ journal = NoJournal /\ InitPrompt

SpecReject == InitReject /\ [][NextReject]_vars

----------------------------------------------------------------------------
(* trimConversationHistory on its own: any turn list longer than
   MAX_CONTEXT_MESSAGES that starts with the task and in which every
   results turn answers the latest assistant turn before it, next to it or
   not.  A shape names the kind of each turn after the first:
     "U" a user turn of text, "A" an assistant turn with one tool_use,
     "R" a user turn with the tool_result of the latest "A" before it. *)
TurnShapes == {"U", "A", "R"}

LatestUse(shape, k) ==
    CHOOSE a \in 2..(k - 1) :
        /\ shape[a] = "A"
        /\ \A b \in (a + 1)..(k - 1) : shape[b] # "A"

ShapeAnswered(shape, len) ==
    \A k \in 2..len : shape[k] = "R" => \E a \in 2..(k - 1) : shape[a] = "A"

TurnsOfShape(shape, len) ==
    [k \in 1..len |->
        IF k = 1 THEN StringTurn("user", "task", "")
        ELSE IF shape[k] = "U" THEN StringTurn("user", "text", "")
        ELSE IF shape[k] = "A" THEN ArrayTurn("assistant", <<ToolUseBlock(k)>>)
        ELSE ArrayTurn("user", <<ToolResultBlock(LatestUse(shape, k), FALSE)>>)]

InitTrim ==
    /\ impl = "part_000"
    /\ \E len \in (MAX_CONTEXT_MESSAGES + 1)..MaxTrimLen :
        \E shape \in {s \in [2..len -> TurnShapes] : ShapeAnswered(s, len)} :
            messages = TurnsOfShape(shape, len)
    /\ iterationCount = 0
    /\ actionCount = 0
    /\ planApproved = FALSE
    /\ pc = "trim"
    /\ request = NoRequest
    /\ response = NoResponse
    /\ approval = NoApproval
    /\ gateInput = <<"", "">>
    /\ toolResults = <<>>
    /\ outcome = "running"
    /\ warned = FALSE
    /\ nextId = 1
    /\ modelCalls = 0
    /\ preApprovalIds = {}
    /\ dispatchedIds = {}
    /\ variations = 0
    /\ received = NoResponse
    /\ approvedAt = 0
    /\ heap = <<>>
    /\ pending = {}
    /\ calls = <<>>
    /\ disk = <<>>
    /\ settles = <<>>
    /\ sessionTokenUsage = TokenUsageAfter(0)
    /\ shown = NothingShown
    /\ subprocesses = {}
    /\ journal = NoJournal
    /\ InitPrompt

(* trimConversationHistory(messages) returns; request.messages holds the
   list it returned *)
TrimHistory ==
    /\ pc = "trim"
    /\ request' = [messages |-> Trimmed(impl, messages),
                   tools |-> "none", sent |-> FALSE]
    /\ pc' = "trimmed"
    /\ UNCHANGED <<promptVars, journal, sessionVars, impl, messages, iterationCount, actionCount, planApproved,
                   response, approval, gateInput, toolResults, outcome, warned,
                   nextId, modelCalls, preApprovalIds, dispatchedIds, variations,
                   received, approvedAt, toolVars>>

SpecTrim == InitTrim /\ [][TrimHistory]_vars

(* The head of the loop on its own: one pass of CallModel over the same
   turn lists, where a results turn may stand apart from its assistant
   turn and the trimmed list may hold an orphaned tool_result. *)
InitGuard ==
    /\ impl = "part_000"
    /\ \E len \in (MAX_CONTEXT_MESSAGES + 1)..MaxTrimLen :
        \E shape \in {s \in [2..len -> TurnShapes] : ShapeAnswered(s, len)} :
            messages = TurnsOfShape(shape, len)
    /\ iterationCount = 0
    /\ actionCount = 0
    /\ planApproved = FALSE
    /\ pc = "loop"
    /\ request = NoRequest
    /\ response = NoResponse
    /\ approval = NoApproval
    /\ gateInput = <<"", "">>
    /\ toolResults = <<>>
    /\ outcome = "running"
    /\ warned = FALSE
    /\ nextId = 1
    /\ modelCalls = 0
    /\ preApprovalIds = {}
    /\ dispatchedIds = {}
    /\ variations = 0
    /\ received = NoResponse
    /\ approvedAt = 0
    /\ heap = <<>>
    /\ pending = {}
    /\ calls = <<>>
    /\ disk = <<>>
    /\ settles = <<>>
    /\ sessionTokenUsage = TokenUsageAfter(0)
    /\ shown = NothingShown
    /\ subprocesses = {}
    /\ journal = NoJournal
    /\ InitPrompt

SpecGuard == InitGuard /\ [][CallModel]_vars

(* trimConversationHistory of either file on its own, on the same turn
   lists and on lists at the ceiling and one below it. *)
InitTrimEither ==
    /\ impl \in {"part_000", "agent_ts"}
    /\ \E len \in (MAX_CONTEXT_MESSAGES - 1)..MaxTrimLen :
        \E shape \in {s \in [2..len -> TurnShapes] : ShapeAnswered(s, len)} :
            messages = TurnsOfShape(shape, len)
    /\ iterationCount = 0
    /\ actionCount = 0
    /\ planApproved = FALSE
    /\ pc = "trim"
    /\ request = NoRequest
    /\ response = NoResponse
    /\ approval = NoApproval
    /\ gateInput = <<"", "">>
    /\ toolResults = <<>>
    /\ outcome = "running"
    /\ warned = FALSE
    /\ nextId = 1
    /\ modelCalls = 0
    /\ preApprovalIds = {}
    /\ dispatchedIds = {}
    /\ variations = 0
    /\ received = NoResponse
    /\ approvedAt = 0
    /\ heap = <<>>
    /\ pending = {}
    /\ calls = <<>>
    /\ disk = <<>>
    /\ settles = <<>>
    /\ sessionTokenUsage = TokenUsageAfter(0)
    /\ shown = NothingShown
    /\ subprocesses = {}
    /\ journal = NoJournal
    /\ InitPrompt

SpecTrimEither == InitTrimEither /\ [][TrimHistory]_vars

----------------------------------------------------------------------------
(* executeTool of src/src/tools/executor.ts, and what the operations of
   src/src/tools/functions.ts hand back to it.

   An input is a record holding exactly the properties of the tool_use
   block's input object; a property that is not there reads as undefined. *)

Has(input, f) == f \in DOMAIN input

\* !input.f for a string property: undefined or ''
Missing(input, f) == ~Has(input, f) \/ input[f] = ""

\* input.f as a condition for a number property: undefined and 0 are falsy
Given(input, f) == Has(input, f) /\ input[f] # 0

\* input.f as a condition for a boolean property: undefined and false are falsy
Flag(input, f) == Has(input, f) /\ input[f]

\* input.f = v
Assign(input, f, v) ==
    [g \in DOMAIN input \cup {f} |-> IF g = f THEN v ELSE input[g]]

KnownTools == {"create_file", "read_file", "edit_file", "delete_file",
               "list_files", "smart_search", "smart_replace", "run_command"}

SearchModes == {"function", "class", "method", "block", "variable"}

(* The message of the Error the switch of executeTool throws before it
   calls the operation, "" when it throws none *)
validationError(name, input) ==
    IF name = "create_file" THEN
        IF Missing(input, "path") THEN "create_file requires \"path\" parameter"
        ELSE IF ~Has(input, "content")
            THEN "create_file requires \"content\" parameter"
        ELSE ""
    ELSE IF name = "read_file" THEN
        IF Missing(input, "path") THEN "read_file requires \"path\" parameter"
        ELSE ""
    ELSE IF name = "edit_file" THEN
        IF Missing(input, "path") THEN "edit_file requires \"path\" parameter"
        ELSE IF Missing(input, "mode") THEN "edit_file requires \"mode\" parameter"
        ELSE IF input.mode # "replace" /\ input.mode # "append"
            THEN "edit_file mode must be \"replace\" or \"append\""
        ELSE IF input.mode = "replace" /\ Missing(input, "old_text")
            THEN "edit_file in replace mode requires \"old_text\" parameter"
        ELSE ""
    ELSE IF name = "delete_file" THEN
        IF Missing(input, "path") THEN "delete_file requires \"path\" parameter"
        ELSE ""
    ELSE IF name = "list_files" THEN ""
    ELSE IF name = "smart_search" THEN
        IF Missing(input, "pattern") THEN "smart_search requires \"pattern\" parameter"
        ELSE IF Missing(input, "search_type")
            THEN "smart_search requires \"search_type\" parameter"
        ELSE IF input.search_type # "filename" /\ input.search_type # "content"
            THEN "smart_search search_type must be \"filename\" or \"content\""
        ELSE ""
    ELSE IF name = "smart_replace" THEN
        IF Missing(input, "path") THEN "smart_replace requires \"path\" parameter"
        ELSE IF Missing(input, "search_mode")
            THEN "smart_replace requires \"search_mode\" parameter"
        ELSE IF input.search_mode \notin SearchModes
            THEN "smart_replace search_mode must be one of"
        ELSE IF Missing(input, "target") THEN "smart_replace requires \"target\" parameter"
        ELSE IF ~Has(input, "new_code") THEN "smart_replace requires \"new_code\" parameter"
        ELSE ""
    ELSE IF name = "run_command" THEN
        IF Missing(input, "command") THEN "run_command requires \"command\" parameter"
        ELSE IF /\ Given(input, "timeout_seconds")
                /\ (input.timeout_seconds < 1 \/ input.timeout_seconds > 600)
            THEN "run_command timeout_seconds must be between 1 and 600 seconds"
        ELSE IF Given(input, "max_output_chars") /\ input.max_output_chars < 100
            THEN "run_command max_output_chars must be at least 100"
        ELSE ""
    ELSE "Unknown tool: " \o name

\* a switch that fills in old_text where the check on it fails
inputAfterSwitchRepairs(name, input) ==
    IF name = "edit_file" /\ Has(input, "mode") /\ input.mode = "replace"
       /\ Missing(input, "old_text")
    THEN Assign(input, "old_text", "x")
    ELSE input

(* The input object when executeTool has run its switch: the edit_file
   case assigns input.new_text = '' when the checks passed and new_text is
   undefined *)
inputAfterSwitch(name, input) ==
    IF name = "edit_file" /\ validationError(name, input) = "" /\ ~Has(input, "new_text")
    THEN Assign(input, "new_text", "")
    ELSE input

\* the function of functions.ts a case returns the result of
operationOf(name) ==
    IF name = "create_file" THEN "createFile"
    ELSE IF name = "read_file" THEN "readFile"
    ELSE IF name = "edit_file" THEN "editFile"
    ELSE IF name = "delete_file" THEN "deleteFile"
    ELSE IF name = "list_files" THEN "listFiles"
    ELSE IF name = "smart_search" THEN "smartSearch"
    ELSE IF name = "smart_replace" THEN "smartReplace"
    ELSE "runCommand"

(* What a call hands back: settled by return or by throw, the string
   returned or the message of the Error, whether the file system was
   written, and in cls what happened underneath *)
Returned(cls, message, wrote) ==
    [cls |-> cls, threw |-> FALSE, message |-> message, wrote |-> wrote]
Threw(cls, message, wrote) ==
    [cls |-> cls, threw |-> TRUE, message |-> message, wrote |-> wrote]

\* the errors of fs that the operations catch and rethrow
FsErrors == {"file_not_found", "permission_denied"}

\* commands by the result of assessCommandRisk
HighRiskCommands == {"rm -rf build"}
assessCommandRisk(command) == IF command \in HighRiskCommands THEN "high" ELSE "low"

\* args.timeout_seconds || 30
timeoutSeconds(input) ==
    IF Given(input, "timeout_seconds") THEN input.timeout_seconds ELSE 30

(* What rejects the await of Promise.race in runCommand:
     "exit"   the command ended with a non-zero exit code (error.code set)
     "race"   runCommand's own timer rejected first: a plain Error, without
              killed and without code
     "kill"   the subprocess timeout killed the command and exec rejected
              first: error.killed is true *)
ExecErrors == {"exit", "race", "kill"}

\* the catch block of runCommand
runCommandCatch(input, error) ==
    IF error = "kill"
    THEN Threw("timeout_kill_first",
               "Command was killed (timeout: " \o ToString(timeoutSeconds(input)) \o "s)",
               TRUE)
    ELSE IF error = "exit"
    THEN Returned("nonzero_exit", "Command failed: " \o input.command \o " Exit Code: 1", TRUE)
    ELSE Returned("timeout_race_first", "Command failed: " \o input.command, TRUE)

runCommand(input) ==
    IF assessCommandRisk(input.command) = "high" /\ ~Flag(input, "approve_risky")
    THEN {Returned("refused", "HIGH-RISK COMMAND DETECTED", FALSE)}
    ELSE {Returned("ok", "Command: " \o input.command, TRUE)}
         \cup {runCommandCatch(input, error) : error \in ExecErrors}

(* The ways an operation can settle for an input that passed the checks of
   executeTool, over what the file system and the command may do *)
operationOutcomes(name, input) ==
    IF name = "create_file" THEN
        {Returned("ok", "File created successfully", TRUE),
         Threw("permission_denied", "Failed to create file: EACCES", FALSE)}
    ELSE IF name = "read_file" THEN
        {Returned("ok", "content", FALSE)}
        \cup {Threw(e, "Failed to read file: " \o e, FALSE) : e \in FsErrors}
    ELSE IF name = "edit_file" THEN
        {Threw(e, "Failed to edit file: " \o e, FALSE) : e \in FsErrors}
        \cup (IF input.mode = "append"
              THEN {Returned("ok", "Content appended", TRUE)}
              ELSE {Returned("ok", "Content replaced", TRUE),
                    Threw("pattern_not_matched",
                          "Failed to edit file: old_text not found in file", FALSE)})
    ELSE IF name = "delete_file" THEN
        {Returned("ok", "File deleted", TRUE)}
        \cup {Threw(e, "Failed to delete: " \o e, FALSE) : e \in FsErrors}
    ELSE IF name = "list_files" THEN
        {Returned("ok", "listing", FALSE)}
        \cup {Threw(e, "Failed to list files: " \o e, FALSE) : e \in FsErrors}
    ELSE IF name = "smart_search" THEN
        {Returned("ok", "Found matches", FALSE),
         Returned("no_results", "No results found", FALSE)}
    ELSE IF name = "smart_replace" THEN
        {Returned("ok", "Smart replacement completed successfully", TRUE),
         Threw("pattern_not_matched", "Smart replace failed: not found", FALSE)}
        \cup {Threw(e, "Smart replace failed: " \o e, FALSE) : e \in FsErrors}
    ELSE runCommand(input)

(* executeTool(name, input): the ways the call can settle.  A failed check
   and an unknown name throw before any operation is called. *)
executeTool(name, input) ==
    IF validationError(name, input) # ""
    THEN {Threw(IF name \in KnownTools THEN "validation" ELSE "unknown_tool",
                validationError(name, input), FALSE)}
    ELSE operationOutcomes(name, inputAfterSwitch(name, input))

\* the operation is called before the checks
invokedAlways(name, input) == <<operationOf(name)>>

\* the operation the call invokes: none when a check failed
invoked(name, input) ==
    IF validationError(name, input) # "" THEN <<>>
    ELSE <<operationOf(name)>>

\* a catch that records the message and no is_error
toolResultUnflagged(toolId, settled) ==
    [type |-> "tool_result", id |-> toolId,
     text |-> IF settled.threw THEN "Error: " \o settled.message ELSE settled.message,
     is_error |-> FALSE]

(* The tool_result the dispatch loop pushes for a settled call: the catch
   adds the 'Error: ' prefix and is_error.  The results here are shorter
   than MAX_TOOL_RESULT_LENGTH, and truncateToolResult returns such a
   result as it is. *)
toolResult(toolId, settled) ==
    [type |-> "tool_result", id |-> toolId,
     text |-> IF settled.threw THEN "Error: " \o settled.message ELSE settled.message,
     is_error |-> settled.threw]

----------------------------------------------------------------------------
(* The tool invocations the model may return: for each tool the inputs
   that pass the checks of executeTool and inputs that fail each of them,
   and a name that is no tool *)
Call(name, input) == [name |-> name, input |-> input]

ToolCalls ==
    {Call("create_file", [path |-> "a.ts", content |-> ""]),
     Call("create_file", [content |-> "x"]),
     Call("create_file", [path |-> "a.ts"]),
     Call("read_file", [path |-> "a.ts"]),
     Call("read_file", [path |-> ""]),
     Call("edit_file", [path |-> "a.ts", mode |-> "replace", old_text |-> "x", new_text |-> "y"]),
     Call("edit_file", [path |-> "a.ts", mode |-> "replace", old_text |-> "x"]),
     Call("edit_file", [path |-> "a.ts", mode |-> "append", new_text |-> "y"]),
     Call("edit_file", [path |-> "a.ts", mode |-> "append"]),
     Call("edit_file", [path |-> "a.ts", mode |-> "replace"]),
     Call("edit_file", [path |-> "a.ts", mode |-> "replace", old_text |-> "", new_text |-> "y"]),
     Call("edit_file", [path |-> "a.ts", mode |-> "overwrite", new_text |-> "y"]),
     Call("edit_file", [path |-> "a.ts"]),
     Call("edit_file", [mode |-> "replace", old_text |-> "x"]),
     Call("delete_file", [path |-> "a.ts"]),
     Call("delete_file", [recursive |-> TRUE]),
     Call("list_files", [recursive |-> TRUE]),
     Call("smart_search", [pattern |-> "x", search_type |-> "content"]),
     Call("smart_search", [pattern |-> "x", search_type |-> "regex"]),
     Call("smart_search", [pattern |-> "x"]),
     Call("smart_search", [search_type |-> "content"]),
     Call("smart_replace", [path |-> "a.ts", search_mode |-> "function", target |-> "f", new_code |-> ""]),
     Call("smart_replace", [path |-> "a.ts", search_mode |-> "function", target |-> "f"]),
     Call("smart_replace", [path |-> "a.ts", search_mode |-> "line", target |-> "f", new_code |-> ""]),
     Call("smart_replace", [path |-> "a.ts", target |-> "f", new_code |-> ""]),
     Call("run_command", [command |-> "ls"]),
     Call("run_command", [command |-> "ls", timeout_seconds |-> 5]),
     Call("run_command", [command |-> "ls", timeout_seconds |-> 0]),
     Call("run_command", [command |-> "ls", timeout_seconds |-> 601]),
     Call("run_command", [command |-> "ls", max_output_chars |-> 99]),
     Call("run_command", [command |-> "rm -rf build"]),
     Call("run_command", [command |-> "rm -rf build", approve_risky |-> TRUE]),
     Call("run_command", [command |-> "rm -rf build", approve_risky |-> FALSE]),
     Call("run_command", [timeout_seconds |-> 5]),
     Call("format_disk", [path |-> "a.ts"])}

\* the invocation of the common path: a file is read
PlainCall == Call("read_file", [path |-> "a.ts"])

(* The subprocess of a run_command call.  exec starts it when the call has
   passed the checks of executeTool and the risk assessment of runCommand.
   It has ended when exec settles (exit, or the kill of exec's timeout
   option); when runCommand's own timer wins Promise.race the await
   settles while the subprocess is still running. *)
spawnedUnassessed(toolId) ==
    IF /\ heap[toolId].name = "run_command"
       /\ validationError(heap[toolId].name, heap[toolId].input) = ""
    THEN {toolId} ELSE {}

spawned(toolId) ==
    IF /\ heap[toolId].name = "run_command"
       /\ validationError(heap[toolId].name, heap[toolId].input) = ""
       /\ ~(/\ assessCommandRisk(heap[toolId].input.command) = "high"
            /\ ~Flag(heap[toolId].input, "approve_risky"))
    THEN {toolId} ELSE {}

leftRunning(toolId, settled) ==
    IF settled.cls = "timeout_race_first" THEN {toolId} ELSE {}

(* executeTool called on the call at heap[toolId]: the switch runs, the
   operation, if one is called, settles, and the outcome is recorded as
   the dispatch loop records it *)
heapAfterSwitch(toolId) ==
    [heap EXCEPT ![toolId].input = inputAfterSwitch(heap[toolId].name, heap[toolId].input)]

Invocations(toolId) ==
    [k \in 1..Len(invoked(heap[toolId].name, heap[toolId].input)) |->
        <<toolId, invoked(heap[toolId].name, heap[toolId].input)[k]>>]

----------------------------------------------------------------------------
(* executeTool on its own: one invocation out of ToolCalls, and executeTool
   called on its name and input object up to MaxExecCalls times in a row *)
InitExec ==
    /\ impl = "part_000"
    /\ messages = <<StringTurn("user", "task", "")>>
    /\ iterationCount = 0
    /\ actionCount = 0
    /\ planApproved = FALSE
    /\ pc = "exec"
    /\ request = NoRequest
    /\ response = NoResponse
    /\ approval = NoApproval
    /\ gateInput = <<"", "">>
    /\ toolResults = <<>>
    /\ outcome = "running"
    /\ warned = FALSE
    /\ nextId = 2
    /\ modelCalls = 0
    /\ preApprovalIds = {}
    /\ dispatchedIds = {}
    /\ variations = 0
    /\ received = NoResponse
    /\ approvedAt = 0
    /\ \E call \in ToolCalls : heap = <<call>>
    /\ pending = {}
    /\ calls = <<>>
    /\ disk = <<>>
    /\ settles = <<>>
    /\ sessionTokenUsage = TokenUsageAfter(0)
    /\ shown = NothingShown
    /\ subprocesses = {}
    /\ journal = NoJournal
    /\ InitPrompt

CallExecuteTool ==
    /\ pc = "exec"
    /\ Len(toolResults) < MaxExecCalls
    /\ \E settled \in executeTool(heap[1].name, heap[1].input) :
        /\ heap' = heapAfterSwitch(1)
        /\ calls' = calls \o Invocations(1)
        /\ disk' = IF settled.wrote THEN Append(disk, 1) ELSE disk
        /\ toolResults' = Append(toolResults, toolResult(1, settled))
        /\ settles' = Append(settles, [id |-> 1, cls |-> settled.cls,
                                       threw |-> settled.threw])
        /\ subprocesses' = subprocesses \cup leftRunning(1, settled)
    /\ UNCHANGED <<promptVars, journal, sessionTokenUsage, shown, impl, messages, iterationCount, actionCount, planApproved, pc,
                   request, response, approval, gateInput, outcome, warned, nextId,
                   modelCalls, preApprovalIds, dispatchedIds, variations, received,
                   approvedAt, pending>>

SpecExec == InitExec /\ [][CallExecuteTool]_vars

----------------------------------------------------------------------------
(* Tool dispatch in full.  Spec above keeps of a tool call only whether
   executeTool threw; here the tool_use blocks carry a name and an input
   object (heap), executeTool runs as modelled above, and a call is in
   flight between DispatchTool and ToolSettles.  The run starts where the
   user has just approved the plan of the first response. *)
ApprovedState ==
    /\ impl = "part_000"
    /\ messages = <<StringTurn("user", "task", ""), ApprovedTurn("part_000", "")>>
    /\ iterationCount = 1
    /\ actionCount = 0
    /\ planApproved = TRUE
    /\ pc = "loop"
    /\ request = [messages |-> <<StringTurn("user", "task", "")>>,
                  tools |-> "empty", sent |-> TRUE]
    /\ response = NoResponse
    /\ approval = getUserPlanApproval("approve", "")
    /\ gateInput = <<"approve", "">>
    /\ toolResults = <<>>
    /\ outcome = "running"
    /\ warned = FALSE
    /\ nextId = 1
    /\ modelCalls = 1
    /\ preApprovalIds = {}
    /\ dispatchedIds = {}
    /\ variations = 0
    /\ received = ResponseContent("marker", 0, 1)
    /\ approvedAt = 1
    /\ heap = <<>>
    /\ pending = {}
    /\ calls = <<>>
    /\ disk = <<>>
    /\ settles = <<>>
    /\ sessionTokenUsage = TokenUsageAfter(1)
    /\ shown = NothingShown
    /\ subprocesses = {}
    /\ journal = NoJournal
    /\ PromptBuilt

InitDispatch == ApprovedState

\* the invocations of n tool_use blocks, PlainCall at all places but those
\* of odd
Picks(n, odd, oddCalls) ==
    [k \in 1..n |-> IF k \in odd THEN oddCalls[k] ELSE PlainCall]

(* messages.create resolves with n tool_use blocks; the assistant turn is
   pushed, holding the blocks of response.content themselves *)
ToolResponse ==
    /\ pc = "await"
    /\ \E n \in 1..MaxToolUses :
       \E odd \in {o \in SUBSET (1..n) : variations + Cardinality(o) <= MaxVariations} :
       \E oddCalls \in [odd -> ToolCalls \ {PlainCall}] :
        LET content == ResponseContent("none", n, nextId)
            picks == Picks(n, odd, oddCalls)
            cost == Cardinality(odd)
        IN  /\ Route(impl, planApproved, content, messages) = "dispatch"
            /\ actionCount + n <= MaxDispatched
            /\ variations + cost <= MaxVariations
            /\ variations' = variations + cost
            /\ nextId' = nextId + n
            /\ received' = content
            /\ response' = content
            /\ heap' = heap \o picks
            /\ messages' = Append(messages, ArrayTurn("assistant", content))
            /\ pc' = "tools"
    /\ sessionTokenUsage' = usageAfterResponse(impl, sessionTokenUsage)
    /\ UNCHANGED <<promptVars, journal, shown, subprocesses, impl, iterationCount, actionCount, planApproved, request,
                   approval, gateInput, toolResults, outcome, warned, modelCalls,
                   preApprovalIds, dispatchedIds, approvedAt, pending, calls,
                   disk, settles>>

\* every call is started at once, none is awaited before the next
mayDispatchUnawaited(inFlight) == TRUE

\* await executeTool(...): the for loop goes on when the call has settled
mayDispatch(inFlight) == inFlight = {}

(* The for loop reaches executeTool for the next tool_use block: the call
   runs its switch and, the checks passed, calls the operation *)
DispatchTool ==
    /\ pc = "tools"
    /\ mayDispatch(pending)
    /\ LET toolUseBlocks == BlocksOfType(response, "tool_use")
           started == Len(toolResults) + Cardinality(pending)
       IN  /\ started < Len(toolUseBlocks)
           /\ LET toolId == toolUseBlocks[started + 1].id
              IN  /\ actionCount' = actionCount + 1
                  /\ dispatchedIds' = dispatchedIds \cup {toolId}
                  /\ pending' = pending \cup {toolId}
                  /\ heap' = heapAfterSwitch(toolId)
                  /\ calls' = calls \o Invocations(toolId)
                  /\ subprocesses' = subprocesses \cup spawned(toolId)
    /\ UNCHANGED <<promptVars, journal, sessionTokenUsage, shown, impl, messages, iterationCount, planApproved, pc, request,
                   response, approval, gateInput, toolResults, outcome, warned,
                   nextId, modelCalls, preApprovalIds, variations, received,
                   approvedAt, disk, settles>>

(* A call in flight settles: its tool_result is pushed, and after the last
   one the results turn is pushed on the conversation *)
ToolSettles ==
    /\ pc = "tools"
    /\ \E toolId \in pending :
        \E settled \in executeTool(heap[toolId].name, heap[toolId].input) :
            LET toolUseBlocks == BlocksOfType(response, "tool_use")
                results == Append(toolResults, toolResult(toolId, settled))
                cost == IF heap[toolId] = PlainCall /\ settled.cls # "ok" THEN 1 ELSE 0
            IN  /\ variations + cost <= MaxVariations
                /\ variations' = variations + cost
                /\ pending' = pending \ {toolId}
                /\ disk' = IF settled.wrote THEN Append(disk, toolId) ELSE disk
                /\ settles' = Append(settles, [id |-> toolId, cls |-> settled.cls,
                                               threw |-> settled.threw])
                /\ subprocesses' = (subprocesses \ {toolId})
                                    \cup leftRunning(toolId, settled)
                /\ IF Len(results) = Len(toolUseBlocks)
                   THEN /\ messages' = Append(messages, ArrayTurn("user", results))
                        /\ toolResults' = <<>>
                        /\ response' = NoResponse
                        /\ pc' = "loop"
                   ELSE /\ toolResults' = results
                        /\ UNCHANGED <<messages, response, pc>>
    /\ UNCHANGED <<promptVars, journal, sessionTokenUsage, shown, impl, iterationCount, actionCount,
                   planApproved, request,
                   approval, gateInput, outcome, warned, nextId, modelCalls,
                   preApprovalIds, dispatchedIds, received, approvedAt, heap, calls>>

NextDispatch ==
    \/ CallModel
    \/ ToolResponse
    \/ DispatchTool
    \/ ToolSettles

SpecDispatch == InitDispatch /\ [][NextDispatch]_vars

(* the model call, and executeTool once called, settle *)
FairSpecDispatch == InitDispatch /\ [][NextDispatch]_vars /\ WF_vars(NextDispatch)

(* The dispatch with the subprocesses as processes of their own: one that
   outlived its call ends when the kill signal of exec's timeout reaches
   it, or when it exits. *)
SubprocessEnds ==
    /\ \E toolId \in subprocesses \ pending :
        subprocesses' = subprocesses \ {toolId}
    /\ UNCHANGED <<promptVars, journal, sessionTokenUsage, shown, impl, messages, iterationCount,
                   actionCount, planApproved, pc, request, response, approval,
                   gateInput, toolResults, outcome, warned, nextId, modelCalls,
                   preApprovalIds, dispatchedIds, variations, received,
                   approvedAt, toolVars>>

NextSubprocess == NextDispatch \/ SubprocessEnds

SpecSubprocess == InitDispatch /\ [][NextSubprocess]_vars

----------------------------------------------------------------------------
(* interactiveMode of src/src/cli.ts: while (true), a task is read at the
   prompt and chatWithToolsAgentic(response.task) is awaited; when it has
   returned the next task is read.  The state of the module (the session
   counters) is what the earlier tasks left; the locals of
   chatWithToolsAgentic are set up anew, and the history of the model
   starts again with the task.  No further task is followed once the
   counters have passed MaxCarriedTokens. *)
InitInteractive ==
    impl \in {"part_000", "agent_ts"} /\ InitLocals /\ journal = NoJournal /\ InitPrompt

TaskEntered ==
    /\ pc = "done"
    /\ sessionTokenUsage.totalTokens <= MaxCarriedTokens
    /\ messages' = <<StringTurn("user", "task", "")>>
    /\ iterationCount' = 0
    /\ actionCount' = 0
    /\ planApproved' = FALSE
    /\ pc' = "loop"
    /\ request' = NoRequest
    /\ response' = NoResponse
    /\ approval' = NoApproval
    /\ gateInput' = <<"", "">>
    /\ toolResults' = <<>>
    /\ outcome' = "running"
    /\ warned' = FALSE
    /\ nextId' = 1
    /\ modelCalls' = 0
    /\ preApprovalIds' = {}
    /\ dispatchedIds' = {}
    /\ received' = NoResponse
    /\ approvedAt' = 0
    /\ shown' = NothingShown
    /\ UNCHANGED <<promptVars, journal, impl, variations, sessionTokenUsage, subprocesses, toolVars>>

NextInteractive == Next \/ TaskEntered

SpecInteractive == InitInteractive /\ [][NextInteractive]_vars

(* Two tasks of one process of interactive mode (part_000), the journal
   kept: the second task is given what the first was given.  It starts
   from the locals of chatWithToolsAgentic set up anew and from the
   sessionTokenUsage the first task left.  The tasks followed are those
   on the common path, of any length, and those off it (see
   ResponseVariation) that are given at most MaxRepeated inputs. *)
InitTwoTasks ==
    /\ impl = "part_000"
    /\ InitLocals
    /\ journal = [NoJournal EXCEPT !.on = TRUE]
    /\ InitPrompt

IsPrefix(short, long) ==
    /\ Len(short) <= Len(long)
    /\ short = SubSeq(long, 1, Len(short))

\* the task is given nothing that the task before it was not given
Replayed ==
    \/ journal.earlier = <<>>
    \/ IsPrefix(journal.script, journal.earlier[1].script)

Followed == variations = 0 \/ Len(journal.script) <= MaxRepeated

\* a step of the loop, in the second task on what the first was given
LoopStep == Next /\ Followed' /\ Replayed'

TaskRepeated ==
    /\ pc = "done"
    /\ journal.on
    /\ journal.earlier = <<>>
    /\ messages' = <<StringTurn("user", "task", "")>>
    /\ iterationCount' = 0
    /\ actionCount' = 0
    /\ planApproved' = FALSE
    /\ pc' = "loop"
    /\ request' = NoRequest
    /\ response' = NoResponse
    /\ approval' = NoApproval
    /\ gateInput' = <<"", "">>
    /\ toolResults' = <<>>
    /\ outcome' = "running"
    /\ warned' = FALSE
    /\ nextId' = 1
    /\ modelCalls' = 0
    /\ preApprovalIds' = {}
    /\ dispatchedIds' = {}
    /\ variations' = 0
    /\ received' = NoResponse
    /\ approvedAt' = 0
    /\ shown' = NothingShown
    /\ journal' = [on |-> TRUE, script |-> <<>>, trace |-> <<>>,
                    start |-> sessionTokenUsage,
                    earlier |-> <<[script |-> journal.script,
                                   trace |-> journal.trace,
                                   start |-> journal.start]>>]
    /\ UNCHANGED <<promptVars, impl, sessionTokenUsage, subprocesses, toolVars>>

NextTwoTasks == LoopStep \/ TaskRepeated

SpecTwoTasks == InitTwoTasks /\ [][NextTwoTasks]_vars

----------------------------------------------------------------------------
(* Strings of tool results.  A string is kept as a sequence of runs: n
   characters of one class c that come from one origin of.  The classes are
   "x" (characters that are no line break and part of no word looked for),
   "\n" (one line break per run), "lines" (lines of value characters of
   class "x" each, joined by line breaks), the words "error" and "ERROR"
   (n = 5) and "number" (the decimal digits of value).  A word cut by
   substring leaves ordinary characters.  length, substring, split('\n'), slice,
   join('\n') and includes are computed on the runs as JavaScript computes
   them on the characters. *)
Run(of, c, n) == [of |-> of, c |-> c, n |-> n, value |-> 0]
Chars(of, n) == IF n > 0 THEN <<Run(of, "x", n)>> ELSE <<>>
Newline(of) == <<Run(of, "\n", 1)>>
Word(of, w) == <<Run(of, w, 5)>>
Lines(of, count, width) ==
    IF count > 0
    THEN <<[of |-> of, c |-> "lines", n |-> count * (width + 1) - 1, value |-> width]>>
    ELSE <<>>

\* the number of lines of a run of class "lines"
lineCount(run) == (run.n + 1) \div (run.value + 1)

Digits(k) ==
    IF k < 10 THEN 1 ELSE IF k < 100 THEN 2 ELSE IF k < 1000 THEN 3
    ELSE IF k < 10000 THEN 4 ELSE IF k < 100000 THEN 5 ELSE 6

\* ${k} in a template literal, k a non-negative integer below 10^6
Number(of, k) == <<[of |-> of, c |-> "number", n |-> Digits(k), value |-> k]>>

RECURSIVE length(_)
length(text) == IF text = <<>> THEN 0 ELSE Head(text).n + length(Tail(text))

\* the first k characters of a run of more than k characters, k > 0
TakeOfRun(run, k) ==
    IF run.c = "lines"
    THEN LET whole == k \div (run.value + 1)
         IN  Lines(run.of, whole, run.value)
             \o (IF whole > 0 THEN Newline(run.of) ELSE <<>>)
             \o Chars(run.of, k % (run.value + 1))
    ELSE Chars(run.of, k)

\* the last k characters of a run of more than k characters, k > 0
DropOfRun(run, k) ==
    IF run.c = "lines"
    THEN LET whole == k \div (run.value + 1)
         IN  Chars(run.of, k % (run.value + 1))
             \o (IF whole > 0 THEN Newline(run.of) ELSE <<>>)
             \o Lines(run.of, whole, run.value)
    ELSE Chars(run.of, k)

RECURSIVE Take(_, _)
Take(text, k) ==
    IF k <= 0 \/ text = <<>> THEN <<>>
    ELSE IF Head(text).n <= k
         THEN <<Head(text)>> \o Take(Tail(text), k - Head(text).n)
         ELSE TakeOfRun(Head(text), k)

RECURSIVE Drop(_, _)
Drop(text, k) ==
    IF text = <<>> THEN <<>>
    ELSE IF k <= 0 THEN text
    ELSE IF Head(text).n <= k THEN Drop(Tail(text), k - Head(text).n)
    ELSE DropOfRun(Head(text), Head(text).n - k) \o Tail(text)

\* String.prototype.substring(start, end) for 0 <= start <= end
substring(text, start, end) == Take(Drop(text, start), end - start)

\* String.prototype.includes(word)
includes(text, word) == \E k \in 1..Len(text) : text[k].c = word /\ text[k].n = 5

\* text.split('\n').length
RECURSIVE lineBreaks(_)
lineBreaks(text) ==
    IF text = <<>> THEN 0
    ELSE (IF Head(text).c = "\n" THEN 1
          ELSE IF Head(text).c = "lines" THEN lineCount(Head(text)) - 1
          ELSE 0) + lineBreaks(Tail(text))

linesLength(text) == lineBreaks(text) + 1

\* the index of the m-th line break of text, 1 <= m <= lineBreaks(text)
RECURSIVE indexOfBreak(_, _)
indexOfBreak(text, m) ==
    IF Head(text).c = "\n"
    THEN (IF m = 1 THEN 0 ELSE 1 + indexOfBreak(Tail(text), m - 1))
    ELSE IF Head(text).c = "lines"
    THEN (IF m <= lineCount(Head(text)) - 1
          THEN m * (Head(text).value + 1) - 1
          ELSE Head(text).n
               + indexOfBreak(Tail(text), m - (lineCount(Head(text)) - 1)))
    ELSE Head(text).n + indexOfBreak(Tail(text), m)

\* text.split('\n').slice(0, m).join('\n'), m >= 1
firstLines(text, m) ==
    IF m >= linesLength(text) THEN text ELSE Take(text, indexOfBreak(text, m))

\* text.split('\n').slice(-m).join('\n'), m >= 1
lastLines(text, m) ==
    IF m >= linesLength(text) THEN text
    ELSE Drop(text, indexOfBreak(text, linesLength(text) - m) + 1)

\* text.lastIndexOf('\n'), -1 when text has no line break
lastIndexOfBreak(text) ==
    IF lineBreaks(text) = 0 THEN 0 - 1 ELSE indexOfBreak(text, lineBreaks(text))

\* text.trim() is not the empty string
RECURSIVE trimmedNonEmpty(_)
trimmedNonEmpty(text) ==
    /\ text # <<>>
    /\ \/ Head(text).c # "\n"
       \/ trimmedNonEmpty(Tail(text))

(* truncateToolResult of src/unnamed/part_000 (the one of src/src/agent.ts
   has the same body) *)
FilesMarker(k) ==
    Newline("marker") \o Newline("marker") \o Chars("marker", 5)
    \o Number("files", k) \o Chars("marker", 47)
    \o Newline("marker") \o Newline("marker")

CharactersMarker(k) ==
    Newline("marker") \o Newline("marker") \o Chars("marker", 5)
    \o Number("characters", k) \o Chars("marker", 47)
    \o Newline("marker") \o Newline("marker")

SearchMarker(k) ==
    Newline("marker") \o Chars("marker", 5)
    \o Number("results", k) \o Chars("marker", 35)

OutputMarker == Newline("marker") \o Newline("marker") \o Chars("marker", 47)

GenericMarker == Newline("marker") \o Newline("marker") \o Chars("marker", 40)

runCommandCase(result) ==
    IF includes(result, "ERROR") \/ includes(result, "error") THEN result
    ELSE Take(result, MAX_TOOL_RESULT_LENGTH) \o OutputMarker

truncateToolResult(result, toolName) ==
    IF ~ENABLE_TOKEN_OPTIMIZATION \/ length(result) <= MAX_TOOL_RESULT_LENGTH
    THEN result
    ELSE CASE toolName = "list_files" ->
                IF linesLength(result) > 50
                THEN firstLines(result, 30)
                     \o FilesMarker(linesLength(result) - 30)
                     \o lastLines(result, 10)
                ELSE result
           [] toolName = "read_file" ->
                LET halfLength == MAX_TOOL_RESULT_LENGTH \div 2
                IN  substring(result, 0, halfLength)
                    \o CharactersMarker(length(result) - MAX_TOOL_RESULT_LENGTH)
                    \o Drop(result, length(result) - halfLength)
           [] toolName = "smart_search" ->
                IF linesLength(result) > 20
                THEN firstLines(result, 20)
                     \o SearchMarker(linesLength(result) - 20)
                ELSE result
           [] toolName = "run_command" -> runCommandCase(result)
           [] OTHER -> Take(result, MAX_TOOL_RESULT_LENGTH) \o GenericMarker

(* runCommand of src/src/tools/functions.ts as text: what it returns for
   what the subprocess wrote.  formatCommandOutput first. *)
OutputLabel == Chars("format", 12) \o Newline("format")
StderrLabel == Chars("format", 14) \o Newline("format")

formatStdout(stdout, showFull, maxChars) ==
    IF ~trimmedNonEmpty(stdout) THEN <<>>
    ELSE IF showFull \/ 2 * length(stdout) <= maxChars
         THEN OutputLabel \o stdout \o Newline("format")
         ELSE IF linesLength(stdout) > 50
              THEN Chars("format", 30) \o Number("lines", linesLength(stdout))
                   \o Chars("format", 2) \o Newline("format")
                   \o lastLines(stdout, 50) \o Newline("format")
              ELSE OutputLabel \o stdout \o Newline("format")

formatStderr(stderr) ==
    IF trimmedNonEmpty(stderr)
    THEN StderrLabel \o stderr \o Newline("format")
    ELSE <<>>

finalTruncation(output, showFull, maxChars) ==
    IF ~showFull /\ length(output) > maxChars
    THEN LET truncated == substring(output, 0, maxChars)
             lastNewline == lastIndexOfBreak(truncated)
             note == Newline("format") \o Newline("format") \o Chars("format", 23)
                     \o Number("chars", length(output))
         IN  IF 10 * lastNewline > 8 * maxChars
             THEN substring(truncated, 0, lastNewline) \o note
                  \o Chars("format", 22) \o Number("showing", lastNewline)
                  \o Chars("format", 1)
             ELSE truncated \o note \o Chars("format", 13)
    ELSE output

formatCommandOutput(stdout, stderr, showFull, maxChars) ==
    finalTruncation(formatStdout(stdout, showFull, maxChars) \o formatStderr(stderr),
                    showFull, maxChars)

\* args.command and process.cwd() as text
commandText(input) == Chars("command", 8)
cwdText == Chars("cwd", 20)

showFullOutput(input) == Has(input, "show_full_output") /\ input.show_full_output
maxOutputChars(input) ==
    IF Has(input, "max_output_chars") /\ input.max_output_chars # 0
    THEN input.max_output_chars ELSE 10000

\* the template literal runCommand returns when the subprocess exited with 0
commandReport(input, stdout, stderr) ==
    LET formatted == formatCommandOutput(stdout, stderr, showFullOutput(input),
                                         maxOutputChars(input))
        output == IF formatted = <<>> THEN Chars("format", 49) ELSE formatted
    IN  Chars("format", 14) \o commandText(input) \o Newline("format")
        \o Chars("format", 24) \o cwdText \o Newline("format")
        \o (IF assessCommandRisk(input.command) = "high"
            THEN Chars("format", 34) \o Newline("format") ELSE <<>>)
        \o Chars("format", 16) \o Number("timeout", timeoutSeconds(input))
        \o Chars("format", 1) \o Newline("format") \o Newline("format")
        \o output

\* errorMsg of the catch block: the subprocess exited with code # 0
errorMsg(input, stdout, stderr, code) ==
    Chars("format", 20) \o commandText(input) \o Newline("format")
    \o (IF stdout # <<>>
        THEN Newline("format") \o Chars("format", 7) \o Newline("format") \o stdout
        ELSE <<>>)
    \o (IF stderr # <<>>
        THEN Newline("format") \o Chars("format", 7) \o Newline("format") \o stderr
        ELSE <<>>)
    \o Newline("format") \o Chars("format", 11) \o Number("code", code)

(* The results the operations return, as text.  Lines of width characters
   joined by line breaks, the first line after a word when there is one: *)
Listing(of, count, width) == Lines(of, count, width)

\* listFiles: results.join('\n'), one entry per line
EntryCounts == {40, 50, 51, MaxEntries}
listFilesResults ==
    {Listing("entry", count, width) : count \in EntryCounts, width \in {10, 45}}

\* readFile, full read of a file of at most max_chars characters: the content
readFileResults ==
    {Chars("content", MAX_TOOL_RESULT_LENGTH + more) : more \in {0, 1, 57, 58, 59, 3000}}
    \cup {Listing("content", count, 45) : count \in {30, MaxEntries}}

\* smartSearch: `Found ${results.length} matches:\n\n${results.join('\n')}`
smartSearchResults ==
    {Chars("format", 6) \o Number("found", count) \o Chars("format", 9)
     \o Newline("format") \o Newline("format") \o Listing("entry", count, width) :
        count \in {10, 18, 19, MaxEntries}, width \in {30, 120}}

\* createFile: `File created successfully: ${args.path}`
createFileResults ==
    {Chars("format", 27) \o Chars("path", MAX_TOOL_RESULT_LENGTH + more) :
        more \in {0 - 1990, 0 - 26, 15, 16, 100}}

\* what a subprocess wrote before it exited
Outputs(of) ==
    {<<>>,
     Listing(of, 3, 40),
     Word(of, "error") \o Listing(of, 3, 40),
     Word(of, "ERROR") \o Listing(of, MaxEntries, 40),
     Listing(of, MaxEntries, 40),
     Listing(of, 4 * MaxEntries, 40),
     Chars(of, 3000)}

Exits == [code : {0, 1}, stdout : Outputs("stdout"), stderr : Outputs("stderr")]

runCommandResult(input, exit) ==
    IF exit.code = 0 THEN commandReport(input, exit.stdout, exit.stderr)
    ELSE errorMsg(input, exit.stdout, exit.stderr, exit.code)

\* the tool calls whose results are followed
TruncateCalls ==
    {Call("list_files", [recursive |-> TRUE]),
     Call("read_file", [path |-> "a.ts"]),
     Call("smart_search", [pattern |-> "x", search_type |-> "content"]),
     Call("create_file", [path |-> "a.ts", content |-> ""]),
     Call("run_command", [command |-> "ls"]),
     Call("run_command", [command |-> "ls", max_output_chars |-> 1000]),
     Call("run_command", [command |-> "ls", show_full_output |-> TRUE])}

\* how the operation of a call can return: the class of the outcome, the
\* string returned and the stderr text it was made from
Returns(call) ==
    IF call.name = "list_files"
    THEN {[cls |-> "ok", result |-> r, stderr |-> <<>>] : r \in listFilesResults}
    ELSE IF call.name = "read_file"
    THEN {[cls |-> "ok", result |-> r, stderr |-> <<>>] : r \in readFileResults}
    ELSE IF call.name = "smart_search"
    THEN {[cls |-> "ok", result |-> r, stderr |-> <<>>] : r \in smartSearchResults}
    ELSE IF call.name = "create_file"
    THEN {[cls |-> "ok", result |-> r, stderr |-> <<>>] : r \in createFileResults}
    ELSE {[cls |-> IF exit.code = 0 THEN "ok" ELSE "nonzero_exit",
           result |-> runCommandResult(call.input, exit),
           stderr |-> exit.stderr] : exit \in Exits}

(* The dispatch loop on one approved tool_use block whose operation
   returns a string: executeTool resolves, then the result is truncated
   and pushed. *)
InitTruncate ==
    /\ impl = "part_000"
    /\ messages = <<StringTurn("user", "task", ""), ApprovedTurn("part_000", "")>>
    /\ iterationCount = 2
    /\ actionCount = 1
    /\ planApproved = TRUE
    /\ pc = "exec"
    /\ request = NoRequest
    /\ response = NoResponse
    /\ approval = NoApproval
    /\ gateInput = <<"", "">>
    /\ toolResults = <<>>
    /\ outcome = "running"
    /\ warned = FALSE
    /\ nextId = 2
    /\ modelCalls = 2
    /\ preApprovalIds = {}
    /\ dispatchedIds = {1}
    /\ variations = 0
    /\ received = NoResponse
    /\ approvedAt = 1
    /\ heap \in {<<call>> : call \in TruncateCalls}
    /\ pending = {1}
    /\ calls = <<>>
    /\ disk = <<>>
    /\ settles = <<>>
    /\ sessionTokenUsage = TokenUsageAfter(2)
    /\ shown = NothingShown
    /\ subprocesses = {}
    /\ journal = NoJournal
    /\ InitPrompt

\* const result = await executeTool(toolName, toolInput) resolves
OperationReturns ==
    /\ pc = "exec"
    /\ \E returned \in Returns(heap[1]) :
        settles' = <<[id |-> 1, cls |-> returned.cls, threw |-> FALSE,
                      result |-> returned.result, stderr |-> returned.stderr]>>
    /\ pending' = {}
    /\ pc' = "returned"
    /\ UNCHANGED <<promptVars, journal, sessionVars, impl, messages, iterationCount, actionCount, planApproved,
                   request, response, approval, gateInput, toolResults, outcome,
                   warned, nextId, modelCalls, preApprovalIds, dispatchedIds,
                   variations, received, approvedAt, heap, calls, disk>>

\* truncateToolResult(result, toolName), toolResults.push
PushToolResult ==
    /\ pc = "returned"
    /\ toolResults' =
        <<[ToolResultBlock(1, FALSE) EXCEPT
              !.text = truncateToolResult(settles[1].result, heap[1].name)]>>
    /\ pc' = "pushed"
    /\ UNCHANGED <<promptVars, journal, sessionVars, impl, messages, iterationCount, actionCount, planApproved,
                   request, response, approval, gateInput, outcome, warned,
                   nextId, modelCalls, preApprovalIds, dispatchedIds,
                   variations, received, approvedAt, toolVars>>

NextTruncate == OperationReturns \/ PushToolResult

SpecTruncate == InitTruncate /\ [][NextTruncate]_vars

----------------------------------------------------------------------------
(* Properties *)

\* every tool_result of the list has its tool_use in an earlier assistant
\* turn of the same list
NoOrphans(list) ==
    \A k \in 1..Len(list) : \A j \in 1..Len(list[k].blocks) :
        list[k].blocks[j].type = "tool_result" =>
            \E e \in 1..(k - 1) :
                /\ list[e].role = "assistant"
                /\ \E u \in 1..Len(list[e].blocks) :
                    /\ list[e].blocks[u].type = "tool_use"
                    /\ list[e].blocks[u].id = list[k].blocks[j].id

(* C1: executeTool runs only while the plan is approved, and the approval
   came from the user's answer at the Plan Gate (approve, or a replacement
   plan); no tool_use block received before approval, the approved plan's
   own response included, is ever dispatched. *)
C1_ToolsOnlyAfterApproval ==
    /\ pc = "tools" => planApproved /\ approval.approved
    /\ dispatchedIds # {} => planApproved /\ approval.approved
    /\ dispatchedIds \cap preApprovalIds = {}

\* the plan approved at the first prompt came with tool_use blocks, and
\* tools were dispatched afterwards
C1_Witness ==
    /\ dispatchedIds # {}
    /\ 1 \in preApprovalIds
    /\ Len(messages) >= 2
    /\ messages[2] = ApprovedTurn(impl, "")

(* C2: a model call made while the plan is not approved carries the empty
   tool list; the catalog is on a call only once the user approved a plan. *)
C2_ToolListGated ==
    request.sent =>
        /\ request.tools \in {"empty", "catalog"}
        /\ request.tools = "catalog" => planApproved /\ approval.approved
        /\ pc = "await" /\ ~planApproved => request.tools = "empty"

\* a call in flight before approval, after the loop already asked for a plan
C2_Witness ==
    /\ pc = "await"
    /\ ~planApproved
    /\ Len(messages) > 1
    /\ request.tools = "empty"

(* C3: in the loop with the validation guard, the turn list of every model
   call has, for each tool_result, the tool_use of the same id in an
   earlier assistant turn of that list, trimmed or not. *)
C3_TransmittedPairsWhole == request.sent => NoOrphans(request.messages)

\* a call whose list lost turns to trimming and still holds tool results
C3_Witness ==
    /\ request.sent
    /\ pc = "await"
    /\ Len(request.messages) < Len(messages)
    /\ ToolResultIds(request.messages) # {}
    /\ ToolUseIds(messages) # ToolUseIds(request.messages)

(* C6: at most MAX_ITERATIONS model calls per task. *)
C6_ModelCallsBounded == modelCalls <= MAX_ITERATIONS

\* the 15th call is made
C6_Witness == modelCalls = MAX_ITERATIONS /\ pc = "await"

(* C5: in the loop of src/src/agent.ts every turn list passed to the model
   is free of orphaned tool_results, also when trimming dropped turns. *)
C5_AgentTransmittedPairsWhole ==
    impl = "agent_ts" /\ request.sent => NoOrphans(request.messages)

(* C7: every run ends, and it ends by a response without tool_use after
   approval, by cancellation at the Plan Gate, by the iteration ceiling, or
   by a failed model call. *)
EndReasonHolds ==
    /\ outcome \in {"completed", "cancelled", "max_iterations", "error"}
    /\ outcome = "completed" =>
          /\ planApproved /\ approval.approved
          /\ ~IncludesPlanIsApproved(Last(messages))
    /\ outcome = "cancelled" =>
          /\ ~planApproved
          /\ GateBranch(approval) = "cancelled"
          /\ gateInput[1] \in GateActions
    /\ outcome = "max_iterations" =>
          iterationCount = MAX_ITERATIONS /\ modelCalls = MAX_ITERATIONS
    /\ outcome = "error" => request.sent /\ modelCalls = iterationCount

C7_TerminatesForOneReason ==
    /\ <>(pc = "done")
    /\ [](pc = "done" => EndReasonHolds)
    /\ [](pc # "done" => outcome = "running")

\* a run that ended by completion after tools ran
C7_Witness ==
    /\ pc = "done"
    /\ outcome = "completed"
    /\ actionCount > 0

(* C8: PlanState moves awaiting_plan -> awaiting_approval (a plan was
   found), awaiting_approval -> approved (the user approved or gave a
   replacement plan), awaiting_approval -> awaiting_plan (revision
   feedback), or the task ends; approved stays approved until the task
   ends, and approval comes from a user decision only. *)
PlanState ==
    IF pc = "done" THEN "ended"
    ELSE IF planApproved THEN "approved"
    ELSE IF pc = "gate" THEN "awaiting_approval"
    ELSE "awaiting_plan"

PlanMove ==
    \/ PlanState' = PlanState
    \/ /\ PlanState = "awaiting_plan"
       /\ PlanState' = "awaiting_approval"
       /\ \E k \in 1..Len(response') :
            /\ response'[k].type = "text"
            /\ extractPlan(response'[k].text) # NULL
    \/ /\ PlanState = "awaiting_approval"
       /\ PlanState' = "approved"
       /\ gateInput'[1] \in {"approve", "replace"}
       /\ gateInput'[1] = "replace" => gateInput'[2] # ""
    \/ /\ PlanState = "awaiting_approval"
       /\ PlanState' = "awaiting_plan"
       /\ gateInput' = <<"feedback", approval'.feedback>>
       /\ approval'.feedback # ""
    \/ /\ PlanState = "awaiting_approval"
       /\ PlanState' = "ended"
       /\ outcome' = "cancelled"
    \/ /\ PlanState \in {"awaiting_plan", "approved"}
       /\ PlanState' = "ended"
       /\ outcome' \in {"completed", "max_iterations", "error"}

C8_PlanStateMoves == [][PlanMove]_vars

\* approved at a later prompt, after a revision was asked for
C8_Witness ==
    /\ PlanState = "approved"
    /\ \E k \in 1..Len(messages) : messages[k].tmpl = "revise_based_on_feedback"

(* C9: a cancel at the Plan Gate (cancel chosen, prompt dismissed, nothing
   entered for feedback or for the replacement plan) ends the task at once:
   no model call and no tool dispatch follows. *)
CancelInput(input) ==
    \/ input[1] \in {"cancel", "none"}
    \/ input[1] \in {"feedback", "replace"} /\ input[2] = ""

C9_CancelEndsTask ==
    /\ [][pc = "gate" /\ CancelInput(gateInput')
            => pc' = "done" /\ outcome' = "cancelled"
               /\ modelCalls' = modelCalls /\ actionCount' = actionCount]_vars
    /\ [][outcome = "cancelled"
            => modelCalls' = modelCalls /\ dispatchedIds' = dispatchedIds
               /\ actionCount' = actionCount /\ pc' = "done"]_vars

\* cancelled by entering no replacement plan, after an earlier model call
C9_Witness ==
    /\ outcome = "cancelled"
    /\ gateInput = <<"replace", "">>
    /\ modelCalls > 1

(* C10: after revision feedback the plan stays unapproved, the user turn
   with the feedback text is the last turn of the next model call, and no
   tool is exposed or dispatched until the user approves at a later
   prompt. *)
C10_FeedbackKeepsGateClosed ==
    /\ [][pc = "gate" /\ gateInput'[1] = "feedback" /\ gateInput'[2] # ""
            => /\ ~planApproved'
               /\ pc' = "loop"
               /\ Last(messages') = ReviseTurn(gateInput'[2])]_vars
    /\ [](/\ pc = "await"
          /\ Last(messages).tmpl = "revise_based_on_feedback"
          => /\ Last(request.messages) = ReviseTurn(gateInput[2])
             /\ request.tools = "empty")
    /\ [](~planApproved =>
            /\ pc # "tools"
            /\ dispatchedIds = {}
            /\ pc = "await" => request.tools = "empty")
    /\ [][~planApproved /\ planApproved'
            => pc = "gate" /\ gateInput'[1] \in {"approve", "replace"}]_vars

\* the call that follows a revision request is in flight, the list trimmed
C10_Witness ==
    /\ pc = "await"
    /\ Last(messages).tmpl = "revise_based_on_feedback"
    /\ Len(messages) > MAX_CONTEXT_MESSAGES

(* C4: for any turn list longer than MAX_CONTEXT_MESSAGES in which every
   tool_result has its tool_use in some earlier assistant turn, adjacent or
   not, the list trimConversationHistory (part_000) returns holds, for
   every tool_result it retains, the assistant turn with the matching
   tool_use.  As the claim states it: *)
C4_TrimKeepsAnyPair ==
    pc = "trimmed" /\ Len(messages) > MAX_CONTEXT_MESSAGES /\ NoOrphans(messages)
        => NoOrphans(request.messages)

\* every results turn directly follows the assistant turn whose tool_use
\* blocks it answers
PairsAdjacent(list) ==
    \A k \in 1..Len(list) :
        HasBlock(list[k], "tool_result") =>
            /\ k > 1
            /\ list[k - 1].role = "assistant"
            /\ ToolResultIds(<<list[k]>>) \subseteq ToolUseIds(<<list[k - 1]>>)

(* C4 as amended: the same for turn lists in which every results turn
   directly follows the assistant turn holding its tool_use blocks. *)
C4_TrimKeepsAdjacentPair ==
    /\ pc = "trimmed"
    /\ Len(messages) > MAX_CONTEXT_MESSAGES
    /\ NoOrphans(messages)
    /\ PairsAdjacent(messages)
    => NoOrphans(request.messages)

\* the cut fell between an assistant turn and its results turn and was
\* moved back: early turns are replaced by the marker, the pair is whole
C4_Witness ==
    /\ pc = "trimmed"
    /\ PairsAdjacent(messages)
    /\ KeepFromIndex(messages) < Len(messages) - MAX_CONTEXT_MESSAGES + 1
    /\ request.messages[2] = summaryMessage
    /\ HasBlock(request.messages[3], "tool_use")
    /\ HasBlock(request.messages[4], "tool_result")
    /\ request.messages # messages

(* C11: in the approved state a response without tool_use that is the first
   response after the approval gets the corrective user turn appended and
   the loop goes on without concluding; any later response without
   tool_use concludes the task as completed, and no model call follows. *)
C11_CorrectiveTurnThenConclude ==
    /\ [][/\ pc = "await"
           /\ planApproved
           /\ outcome' # "error"
           /\ Len(BlocksOfType(received', "tool_use")) = 0
           => IF modelCalls = approvedAt + 1
              THEN /\ messages' = Append(messages, StartExecutingTurn)
                   /\ pc' = "loop"
                   /\ outcome' = "running"
              ELSE /\ outcome' = "completed"
                   /\ pc' = "done"
                   /\ messages' = messages]_vars
    /\ [][outcome = "completed" => modelCalls' = modelCalls /\ pc' = "done"]_vars

\* the corrective turn was appended, and the next response without tool_use
\* concluded the task
C11_Witness ==
    /\ outcome = "completed"
    /\ Last(messages) = StartExecutingTurn
    /\ modelCalls = approvedAt + 2

(* The checks the tools declare, as a table: the string properties that
   must be given and not empty, the properties that must be given, and the
   values an enumerated property may take *)
RequiredText(call) ==
    IF call.name = "create_file" THEN {"path"}
    ELSE IF call.name = "read_file" THEN {"path"}
    ELSE IF call.name = "edit_file" THEN
        {"path", "mode"} \cup
        (IF Has(call.input, "mode") /\ call.input.mode = "replace"
         THEN {"old_text"} ELSE {})
    ELSE IF call.name = "delete_file" THEN {"path"}
    ELSE IF call.name = "smart_search" THEN {"pattern", "search_type"}
    ELSE IF call.name = "smart_replace" THEN {"path", "search_mode", "target"}
    ELSE IF call.name = "run_command" THEN {"command"}
    ELSE {}

RequiredGiven(call) ==
    IF call.name = "create_file" THEN {"content"}
    ELSE IF call.name = "smart_replace" THEN {"new_code"}
    ELSE {}

Enumerated(call) ==
    IF call.name = "edit_file" THEN [mode |-> {"replace", "append"}]
    ELSE IF call.name = "smart_search" THEN [search_type |-> {"filename", "content"}]
    ELSE IF call.name = "smart_replace" THEN [search_mode |-> SearchModes]
    ELSE <<>>

ViolatesCheck(call) ==
    /\ call.name \in KnownTools
    /\ \/ \E f \in RequiredText(call) : ~Has(call.input, f) \/ call.input[f] = ""
       \/ \E f \in RequiredGiven(call) : ~Has(call.input, f)
       \/ \E f \in DOMAIN Enumerated(call) :
            Has(call.input, f) /\ call.input[f] \notin Enumerated(call)[f]

\* the number bounds of run_command
ViolatesBound(call) ==
    /\ call.name = "run_command"
    /\ \/ /\ Has(call.input, "timeout_seconds")
          /\ call.input.timeout_seconds # 0
          /\ call.input.timeout_seconds \notin 1..600
       \/ /\ Has(call.input, "max_output_chars")
          /\ call.input.max_output_chars \in 1..99

(* C14: a call of executeTool whose name and argument map violate a
   required-field or enumerated-value check settles with a validation
   error, invokes no operation, writes nothing to the file system and
   leaves the argument map as it was. *)
C14_InvalidCallRunsNothing ==
    [][ViolatesCheck(heap[1]) /\ pc = "exec"
        => /\ toolResults' = Append(toolResults, Last(toolResults'))
           /\ Last(toolResults').is_error
           /\ \E f \in RequiredText(heap[1]) \cup RequiredGiven(heap[1])
                        \cup DOMAIN Enumerated(heap[1]) :
                Last(toolResults').text \in
                    {"Error: " \o heap[1].name \o " requires \"" \o f \o "\" parameter",
                     "Error: " \o heap[1].name \o " " \o f
                        \o " must be \"replace\" or \"append\"",
                     "Error: " \o heap[1].name \o " " \o f
                        \o " must be \"filename\" or \"content\"",
                     "Error: " \o heap[1].name \o " " \o f \o " must be one of",
                     "Error: " \o heap[1].name \o " in replace mode requires \""
                        \o f \o "\" parameter"}
           /\ calls' = calls
           /\ disk' = disk
           /\ heap' = heap]_vars

\* edit_file with mode replace and no old_text was called
C14_Witness ==
    /\ pc = "exec"
    /\ heap[1] = Call("edit_file", [path |-> "a.ts", mode |-> "replace"])
    /\ Len(toolResults) = 1
    /\ toolResults[1].is_error
    /\ disk = <<>>

(* C15: executeTool called twice in a row on a name and an argument map
   that fail validation raises the same validation error both times, and
   neither call invokes an operation or writes to the file system. *)
ValidationErrors ==
    {"Error: " \o validationError(call.name, call.input) :
        call \in {c \in ToolCalls : ViolatesCheck(c) \/ ViolatesBound(c)}}

C15_InvalidCallTwiceSame ==
    /\ pc = "exec"
    /\ Len(toolResults) >= 2
    /\ toolResults[1].text \in ValidationErrors
    => /\ toolResults[2] = toolResults[1]
       /\ toolResults[1].is_error
       /\ calls = <<>>
       /\ disk = <<>>

\* run_command with a timeout out of bounds was called twice
C15_Witness ==
    /\ pc = "exec"
    /\ heap[1] = Call("run_command", [command |-> "ls", timeout_seconds |-> 601])
    /\ Len(toolResults) = 2
    /\ toolResults[2].is_error

\* the ids of the blocks of one type, in the order of the blocks
BlockIdSeq(blocks, type) ==
    [k \in 1..Len(BlocksOfType(blocks, type)) |-> BlocksOfType(blocks, type)[k].id]

\* the tool_result blocks recorded so far, pushed on the conversation or not
ResultBlocks ==
    Range(toolResults) \cup
    UNION {{b \in Range(m.blocks) : b.type = "tool_result"} : m \in Range(messages)}

(* C12: within one iteration at most one executeTool call is in flight, the
   calls are made in the order of the tool_use blocks of the response, each
   after the one before it has settled, and the results turn pushed
   afterwards holds one tool_result per tool_use block of the assistant
   turn before it, in the same order and with the same ids. *)
C12_SerialInOrder ==
    /\ Cardinality(pending) <= 1
    /\ pc = "tools" =>
        LET ids == BlockIdSeq(response, "tool_use")
        IN  /\ Len(toolResults) + Cardinality(pending) <= Len(ids)
            /\ BlockIdSeq(toolResults, "tool_result") = SubSeq(ids, 1, Len(toolResults))
            /\ \A id \in pending : id = ids[Len(toolResults) + 1]
    /\ \A k \in 1..Len(messages) :
        HasBlock(messages[k], "tool_result") =>
            /\ k > 1
            /\ messages[k - 1].role = "assistant"
            /\ Len(messages[k].blocks) = Len(BlockIdSeq(messages[k - 1].blocks, "tool_use"))
            /\ BlockIdSeq(messages[k].blocks, "tool_result")
                   = BlockIdSeq(messages[k - 1].blocks, "tool_use")

\* a results turn for a response of two tool_use blocks was pushed
C12_Witness ==
    /\ pc = "loop"
    /\ HasBlock(Last(messages), "tool_result")
    /\ Len(Last(messages).blocks) = 2
    /\ Len(calls) = 2

(* C13: when executeTool raises (a failed check, an unknown tool name, an
   operation that throws), a tool_result with is_error and the id of that
   invocation is recorded, the run is not ended, the remaining tool_use
   blocks of the response are dispatched and the next model call is
   made. *)
C13_ToolErrorIsRecoverable ==
    /\ [](\A k \in 1..Len(settles) :
            settles[k].threw =>
                \E b \in ResultBlocks : b.id = settles[k].id /\ b.is_error)
    /\ [](pc # "done" /\ outcome = "running")
    /\ (/\ pc = "tools"
        /\ Len(settles) > 0
        /\ Last(settles).threw
        /\ Last(settles).id >= received[1].id)
       ~> (/\ pc = "await"
           /\ ToolResultIds(request.messages) = ToolUseIds(request.messages)
           /\ dispatchedIds = 1..(nextId - 1)
           /\ \A k \in 1..Len(settles) :
                settles[k].threw =>
                    \E b \in UNION {Range(m.blocks) : m \in Range(request.messages)} :
                        b.type = "tool_result" /\ b.id = settles[k].id /\ b.is_error)

\* an unknown tool name came first in a response of two tool_use blocks;
\* the second was dispatched and the next model call made
C13_Witness ==
    /\ pc = "await"
    /\ modelCalls = 3
    /\ Len(heap) = 2
    /\ heap[1].name \notin KnownTools
    /\ Len(messages) = 4
    /\ messages[4].blocks[1].is_error
    /\ ~messages[4].blocks[2].is_error

(* C17: every operation error of a dispatched tool (file not found,
   permission denied, pattern not matched, a command that exits non-zero)
   gives a tool_result with is_error for that invocation. *)
C17_OperationErrorsFlagged ==
    \A k \in 1..Len(settles) :
        settles[k].cls \in {"file_not_found", "permission_denied",
                            "pattern_not_matched", "nonzero_exit"}
        => \E b \in ResultBlocks : b.id = settles[k].id /\ b.is_error

(* C18: a command that runs past its timeout gives, whichever of
   runCommand's own timer and the subprocess timeout rejects first, a
   tool_result with is_error whose message states the timeout and its
   bound in seconds, and the run goes on. *)
C18_TimeoutFlaggedInAnyOrder ==
    \A k \in 1..Len(settles) :
        settles[k].cls \in {"timeout_race_first", "timeout_kill_first"}
        => /\ pc # "done"
           /\ \E b \in ResultBlocks :
                /\ b.id = settles[k].id
                /\ b.is_error
                /\ b.text \in
                    {"Error: Command was killed (timeout: "
                        \o ToString(timeoutSeconds(heap[b.id].input)) \o "s)",
                     "Error: Command timed out after "
                        \o ToString(timeoutSeconds(heap[b.id].input)) \o " seconds"}

(* C20: a turn once pushed on the conversation is never removed and never
   changed: every step keeps the stored turns, and the input objects of
   the tool_use blocks they hold, as they were. *)
C20_StoredTurnsNeverChange ==
    [][/\ Len(messages') >= Len(messages)
       /\ SubSeq(messages', 1, Len(messages)) = messages
       /\ \A id \in ToolUseIds(messages) : heap'[id] = heap[id]]_vars

(* C16: after a model call has failed (401, 429, 5xx, network unreachable:
   whatever messages.create rejects with) the task makes no further model
   call and dispatches no tool. *)
C16_NothingAfterFailedCall ==
    /\ [][pc = "await" /\ outcome' = "error"
            => /\ pc' = "done"
               /\ modelCalls' = modelCalls
               /\ actionCount' = actionCount
               /\ dispatchedIds' = dispatchedIds]_vars
    /\ [][outcome = "error"
            => /\ pc' = "done"
               /\ modelCalls' = modelCalls
               /\ actionCount' = actionCount
               /\ dispatchedIds' = dispatchedIds]_vars
    /\ [](outcome = "error" => pc = "done")

\* a model call failed after tools had been dispatched
C16_Witness ==
    /\ outcome = "error"
    /\ pc = "done"
    /\ dispatchedIds # {}
    /\ modelCalls < MAX_ITERATIONS

(* C19: when validateToolPairs fails on the list trimConversationHistory
   returned, the turn list of that model call is the task turn alone. *)
C19_GuardResetsToTask ==
    [][/\ pc = "loop"
       /\ pc' = "await"
       /\ ~validateToolPairs(trimConversationHistory(messages))
       => /\ request'.sent
          /\ request'.messages = <<At(messages, 0)>>]_vars

\* a call went out with the task turn alone, the conversation being longer
C19_Witness ==
    /\ pc = "await"
    /\ request.sent
    /\ Len(request.messages) = 1
    /\ request.messages[1] = messages[1]
    /\ Len(messages) > MAX_CONTEXT_MESSAGES
    /\ ~validateToolPairs(trimConversationHistory(messages))

----------------------------------------------------------------------------
(* C21: whenever trimConversationHistory (of either file) returns a list
   other than its argument, that list is the first turn of the argument,
   then the one marker turn, then the turns of the argument from some
   index after the second on, in their order; a list of at most
   MAX_CONTEXT_MESSAGES turns is returned as it is. *)
MarkerOf(which) ==
    IF which = "part_000" THEN summaryMessage ELSE summaryMessageAgent

C21_TrimIsTaskMarkerSuffix ==
    pc = "trimmed" =>
        /\ Len(messages) <= MAX_CONTEXT_MESSAGES => request.messages = messages
        /\ request.messages # messages =>
            /\ \E from \in 2..Len(messages) :
                /\ request.messages[1] = messages[1]
                /\ request.messages[2] = MarkerOf(impl)
                /\ Len(request.messages) = 2 + Len(messages) - from
                /\ \A k \in 3..Len(request.messages) :
                       request.messages[k] = messages[from + k - 2]
                /\ \A k \in 3..Len(request.messages) :
                       request.messages[k] \notin {summaryMessage, summaryMessageAgent}

\* part_000 dropped the second and third turn of a list of twelve
C21_Witness ==
    /\ pc = "trimmed"
    /\ impl = "part_000"
    /\ Len(messages) = MAX_CONTEXT_MESSAGES + 2
    /\ Len(request.messages) = MAX_CONTEXT_MESSAGES + 1
    /\ request.messages[2] = summaryMessage
    /\ request.messages[3] = messages[4]

----------------------------------------------------------------------------
(* Properties of the pushed tool_result text *)
RECURSIVE charsOf(_, _)
charsOf(text, of) ==
    IF text = <<>> THEN 0
    ELSE (IF Head(text).of = of THEN Head(text).n ELSE 0) + charsOf(Tail(text), of)

\* the lines of origin "entry" in a text
RECURSIVE entriesOf(_)
entriesOf(text) ==
    IF text = <<>> THEN 0
    ELSE (IF Head(text).of # "entry" THEN 0
          ELSE IF Head(text).c = "lines" THEN lineCount(Head(text))
          ELSE IF Head(text).c = "x" THEN 1 ELSE 0) + entriesOf(Tail(text))

(* C22: a run_command result that reports a failed command with stderr
   text gives a tool_result content in which every character of that
   stderr text is present. *)
C22_FailedCommandKeepsStderr ==
    /\ pc = "pushed"
    /\ heap[1].name = "run_command"
    /\ settles[1].cls = "nonzero_exit"
    /\ settles[1].stderr # <<>>
    => charsOf(toolResults[1].text, "stderr") = length(settles[1].stderr)

(* C23: the count a truncation marker reports (entries of list_files,
   characters of read_file, results of smart_search) is the number of
   entries or characters of the original result that the returned text no
   longer holds. *)
C23_OmittedCountIsExact ==
    pc = "pushed" =>
        \A k \in 1..Len(toolResults[1].text) :
            LET run == toolResults[1].text[k]
            IN  /\ run.c = "number" /\ run.of \in {"files", "results"}
                   => run.value = entriesOf(settles[1].result)
                                  - entriesOf(toolResults[1].text)
                /\ run.c = "number" /\ run.of = "characters"
                   => run.value = length(settles[1].result)
                                  - charsOf(toolResults[1].text, "content")

(* C24: every result of a successful tool call that is longer than
   MAX_TOOL_RESULT_LENGTH gives, whatever the tool, a tool_result text
   strictly shorter than the result. *)
C24_LongResultIsShortened ==
    /\ pc = "pushed"
    /\ settles[1].cls = "ok"
    /\ length(settles[1].result) > MAX_TOOL_RESULT_LENGTH
    => length(toolResults[1].text) < length(settles[1].result)

----------------------------------------------------------------------------
(* C25: when a model call is made, the response received before it, be it
   a planning response, the response answered by the corrective turn or a
   response with tool_use blocks, is in the conversation as an assistant
   turn whose content is the content received. *)
C25_ResponseAppendedBeforeNextCall ==
    [][pc = "loop" /\ pc' = "await" /\ modelCalls > 0
        => \E k \in 1..Len(messages) :
               messages[k] = ArrayTurn("assistant", received)]_vars

(* C26: in interactive mode every task starts with a conversation that
   holds its task turn alone, with no plan approved and none awaiting
   approval, with iteration and action count 0 and with the session token
   counters at zero. *)
C26_TaskStartsFresh ==
    pc = "loop" /\ iterationCount = 0
    => /\ messages = <<StringTurn("user", "task", "")>>
       /\ PlanState = "awaiting_plan"
       /\ approval = NoApproval
       /\ actionCount = 0
       /\ sessionTokenUsage = TokenUsageAfter(0)

(* C27: at most one model call or tool operation is in flight, and a
   subprocess started by run_command is running only while the loop
   awaits the executeTool call that started it: when the loop has moved
   on, the subprocess has exited or has been killed. *)
C27_OneOperationInFlight ==
    /\ Cardinality(pending \cup subprocesses)
       + (IF pc = "await" THEN 1 ELSE 0) <= 1
    /\ subprocesses \subseteq pending

(* C28: when a model call fails, the headline shown is the authentication
   one for status 401, the rate-limit one for 429, the server-error one
   for every status 500..599 and the network one for ECONNREFUSED and
   ENOTFOUND. *)
C28_HeadlineByErrorClass ==
    shown.error # NoError =>
        /\ shown.error.status = 401 => shown.message = "Authentication Error"
        /\ shown.error.status = 429 => shown.message = "Rate Limit Exceeded"
        /\ shown.error.status \in 500..599 => shown.message = "Server Error"
        /\ shown.error.code \in {"ECONNREFUSED", "ENOTFOUND"}
           => shown.message = "Network Error"

(* C29 as the claim states it: a run that has gone through MAX_ITERATIONS
   iterations without an approved plan has ended by the ceiling, with the
   warning and not as an error, and has dispatched no tool. *)
C29_UnapprovedRunEndsByWarning ==
    pc = "done" /\ iterationCount = MAX_ITERATIONS /\ ~planApproved
    => /\ outcome = "max_iterations"
       /\ warned
       /\ dispatchedIds = {}

(* C29 as amended: when MAX_ITERATIONS iterations have each returned to
   the head of the loop and no plan is approved, the loop stops there:
   no further model call is made after the 15th, the warning is printed,
   the run has not ended as an error, and no tool has been dispatched at
   any point of the run. *)
C29_CeilingWithoutApproval ==
    /\ [][pc = "loop" /\ iterationCount = MAX_ITERATIONS /\ ~planApproved
           => /\ pc' = "done"
              /\ outcome' = "max_iterations"
              /\ warned'
              /\ modelCalls = MAX_ITERATIONS
              /\ modelCalls' = modelCalls
              /\ dispatchedIds' = {}
              /\ actionCount' = 0]_vars
    /\ [](outcome = "max_iterations" /\ ~planApproved
           => /\ pc = "done"
              /\ warned
              /\ modelCalls = MAX_ITERATIONS
              /\ dispatchedIds = {}
              /\ actionCount = 0)

\* the ceiling was reached without approval in a run in which the model
\* had asked for a tool
C29_Witness ==
    /\ pc = "done"
    /\ outcome = "max_iterations"
    /\ ~planApproved
    /\ warned
    /\ modelCalls = MAX_ITERATIONS
    /\ preApprovalIds # {}
    /\ dispatchedIds = {}

(* The tool calls about which the user has been asked and has agreed.
   prompts() is called for the task (cli.ts) and for the plan (select,
   feedback, new plan); no call of it is about a command, and runCommand
   reads nothing but its arguments. *)
commandsApprovedByUser == {}

(* C30: a subprocess started for a command classified high-risk is one the
   user was prompted about and approved; without that approval no such
   subprocess exists. *)
C30_HighRiskNeedsUserApproval ==
    \A toolId \in subprocesses :
        assessCommandRisk(heap[toolId].input.command) = "high"
        => toolId \in commandsApprovedByUser

(* C31: within one task no operation is executed a second time for a tool
   invocation with the same tool name and the same arguments as one
   already dispatched. *)
C31_NoDuplicateOperation ==
    \A i, j \in 1..Len(calls) :
        i # j => heap[calls[i][1]] # heap[calls[j][1]]

(* C32: with default arguments the text run_command returns holds at most
   10,000 characters of command output (stdout plus stderr), for a command
   that exits with 0 and for one that exits non-zero alike. *)
C32_CommandOutputLimited ==
    /\ pc \in {"returned", "pushed"}
    /\ heap[1] = Call("run_command", [command |-> "ls"])
    => charsOf(settles[1].result, "stdout") + charsOf(settles[1].result, "stderr")
           <= maxOutputChars(heap[1].input)

(* C33: two runs that are given the same model responses, user decisions
   and tool results but start from different values of the token counters
   make the same model calls, Plan Gate prompts and tool dispatches in the
   same order, and end for the same reason: as far as the second task has
   been given what the first was given, it has done what the first did,
   and when it has been given all of it and has ended it has done all of
   it. *)
C33_CountersDoNotSteer ==
    journal.earlier # <<>> /\ IsPrefix(journal.script, journal.earlier[1].script)
    => /\ IsPrefix(journal.trace, journal.earlier[1].trace)
       /\ journal.script = journal.earlier[1].script /\ pc = "done"
          => journal.trace = journal.earlier[1].trace

\* a second task that started from other counters than the first, was
\* given the same, passed the Plan Gate, dispatched a tool and ended
C33_Witness ==
    /\ journal.earlier # <<>>
    /\ journal.start # journal.earlier[1].start
    /\ journal.script = journal.earlier[1].script
    /\ journal.trace = journal.earlier[1].trace
    /\ pc = "done"
    /\ planApproved
    /\ dispatchedIds # {}

----------------------------------------------------------------------------
(* The catalog handed to the model: input_schema.required of every tool of
   the tools array.  src/src/tools/index.ts lists the same tools without
   smart_replace. *)
required(name) ==
    IF name = "create_file" THEN {"path", "content"}
    ELSE IF name = "read_file" THEN {"path"}
    ELSE IF name = "edit_file" THEN {"path", "new_text", "mode"}
    ELSE IF name = "delete_file" THEN {"path"}
    ELSE IF name = "list_files" THEN {}
    ELSE IF name = "smart_search" THEN {"pattern", "search_type"}
    ELSE IF name = "smart_replace" THEN {"path", "search_mode", "target", "new_code"}
    ELSE IF name = "run_command" THEN {"command"}
    ELSE {}

(* C34: when the argument map of a call of executeTool omits a field of
   the required list of the tool in the catalog, the call invokes no
   operation and settles with an error. *)
C34_MissingRequiredIsRejected ==
    [][(\E f \in required(heap[1].name) : ~Has(heap[1].input, f))
        => /\ calls' = calls
           /\ toolResults'[Len(toolResults')].is_error]_vars

(* C35: a subprocess for a command that assessCommandRisk classifies as
   high exists only for a call whose arguments carry approve_risky = true;
   a high-risk call without it that reached runCommand has settled by
   returning the warning text, and has started no subprocess. *)
C35_HighRiskRunsOnlyWithFlag ==
    /\ \A toolId \in subprocesses :
        assessCommandRisk(heap[toolId].input.command) = "high"
        => /\ Has(heap[toolId].input, "approve_risky")
           /\ heap[toolId].input.approve_risky = TRUE
    /\ \A k \in 1..Len(settles) :
        LET call == heap[settles[k].id]
        IN  /\ call.name = "run_command"
            /\ validationError(call.name, call.input) = ""
            /\ assessCommandRisk(call.input.command) = "high"
            /\ ~(Has(call.input, "approve_risky") /\ call.input.approve_risky = TRUE)
            => /\ settles[k].cls = "refused"
               /\ ~settles[k].threw
               /\ settles[k].id \notin subprocesses

\* a high-risk call with approve_risky false reached runCommand and was
\* refused: the warning came back, no subprocess is there
C35_Witness ==
    \E k \in 1..Len(settles) :
        /\ heap[settles[k].id] =
              Call("run_command", [command |-> "rm -rf build", approve_risky |-> FALSE])
        /\ <<settles[k].id, "runCommand">> \in {calls[i] : i \in 1..Len(calls)}
        /\ settles[k].cls = "refused"
        /\ subprocesses = {}

(* C36: a run_command call whose timeout_seconds is supplied and not
   within 1..600 settles with a validation error and starts nothing; one
   whose timeout_seconds is absent or within 1..600 is accepted and runs
   with the supplied timeout, or with 30 seconds when none was supplied. *)
C36_TimeoutWithinBounds ==
    \A k \in 1..Len(settles) :
        LET input == heap[settles[k].id].input
        IN  /\ heap[settles[k].id].name = "run_command"
            /\ ~Missing(input, "command")
            /\ ~(Has(input, "max_output_chars") /\ input.max_output_chars < 100)
            => IF Has(input, "timeout_seconds") /\ input.timeout_seconds \notin 1..600
               THEN /\ settles[k].cls = "validation"
                    /\ calls = <<>>
                    /\ subprocesses = {}
               ELSE /\ settles[k].cls # "validation"
                    /\ timeoutSeconds(input) =
                         IF Has(input, "timeout_seconds") THEN input.timeout_seconds ELSE 30

(* C37: with token optimization on, the turn list of a model call holds at
   most MAX_CONTEXT_MESSAGES turns, the first turn and the marker turn
   counted. *)
C37_SentListWithinCeiling ==
    ENABLE_TOKEN_OPTIMIZATION /\ request.sent
    => Len(request.messages) <= MAX_CONTEXT_MESSAGES

(* C38: a run that reported 'Task completed successfully' has not emitted
   the 'Reached maximum iterations' warning, in whichever iteration it
   completed; a run that emitted the warning ended because the ceiling was
   exhausted. *)
C38_CompletedRunNotWarned ==
    /\ outcome = "completed" => ~warned
    /\ warned => outcome = "max_iterations"

----------------------------------------------------------------------------
(* The loop with the instruction files written to from outside while the
   process runs: the file there is gets a new content and a newer
   modification time. *)
InitWritable ==
    /\ impl \in {"part_000", "agent_ts"}
    /\ InitLocals
    /\ journal = NoJournal
    /\ InitCaches
    /\ \E k \in 1..Len(possibleFiles) : files = OnlyFile(possibleFiles[k])

FileWritten ==
    /\ pc # "done"
    /\ currentPath # ""
    /\ files[currentPath].mtimeMs <= MaxWrites
    /\ files' = [files EXCEPT ![currentPath] =
                    File(@.mtimeMs + 1, "v" \o ToString(@.mtimeMs + 1))]
    /\ UNCHANGED <<cachedSystemPrompt, cachedCustomInstructions, customInstructionsPath,
                   customInstructionsLastModified, systemPrompt, journal, sessionVars,
                   impl, messages, iterationCount, actionCount, planApproved, pc,
                   request, response, approval, gateInput, toolResults, outcome,
                   warned, nextId, modelCalls, preApprovalIds, dispatchedIds,
                   variations, received, approvedAt, toolVars>>

NextWritable == Next \/ FileWritten

SpecWritable == InitWritable /\ [][NextWritable]_vars

(* C39: when the instruction file has a newer modification time and a new
   content than at an earlier model call of the process, the system prompt
   of the next model call holds the new content. *)
C39_LaterCallSendsNewInstructions ==
    [][/\ modelCalls >= 1
       /\ modelCalls' = modelCalls + 1
       /\ currentPath # ""
       /\ customInstructionsPath = currentPath
       /\ customInstructionsLastModified < files[currentPath].mtimeMs
       /\ cachedCustomInstructions # files[currentPath].content
       => systemPrompt' = PromptWith(files[currentPath].content)]_vars

====
